---------------------------- MODULE Spec2Model ----------------------------
(***************************************************************************)
(* A model of joule's semantic layer: the AST (src/joule/ast.py), the      *)
(* scope resolver (src/joule/model/scope_resolver.py over                  *)
(* src/joule/visitor.py) and the definition provider                       *)
(* (src/joule/providers/definition_provider.py).                           *)
(*                                                                         *)
(* An AST node is a record [kind, name, kids]; a node is identified by its *)
(* path from the document root (the sequence of child indexes), which      *)
(* stands for the object identity of the Python node.  The order of kids   *)
(* is the order of the node's `children` property.                         *)
(***************************************************************************)
EXTENDS Integers, Sequences, FiniteSets, TLC

\* ------------------------------------------------------------------ bounds
\* Number of identifier names the documents draw from.
NumNames == 2
\* Number of scopes / bindings of the free-standing scope tree (SpecScope).
MaxScopes == 3
MaxBindings == 3
\* Python's recursion limit, scaled down: depth at which a recursion of the
\* definition provider is cut off (RecursionError).
MaxDepth == 16
\* Document objects a loader makes in one run.
MaxObjects == 3
\* Fields and for-specs of an object in a parse tree.
MaxMembers == 3
\* Column at which the text of a document starts (what precedes it is blank).
DocStart == 1

NamePool == <<"a", "b", "c", "d">>
Names == {NamePool[i] : i \in 1..NumNames}

\* ------------------------------------------------------------- AST values
N(kind, name, kids) == [kind |-> kind, name |-> name, kids |-> kids]

Num == N("Num", "1", <<>>)
BoolT == N("Bool", "true", <<>>)
Var(n) == N("Var", n, <<>>)
VarRef(n) == N("VarRef", n, <<>>)
IdField(n) == N("IdField", n, <<>>)
Str(n) == N("Str", n, <<>>)
FieldRef(n) == N("FieldRef", n, <<>>)
Bind(n, value) == N("Bind", "", <<Var(n), value>>)
Local(binds, body) == N("Local", "", Append(binds, body))
Param(n) == N("Param", "", <<Var(n)>>)
ParamD(n, default) == N("Param", "", <<Var(n), default>>)
Fn(params, body) == N("Fn", "", Append(params, body))
Plus(lhs, rhs) == N("Binary", "+", <<lhs, rhs>>)
Minus(lhs, rhs) == N("Binary", "-", <<lhs, rhs>>)
If(c, cons, alt) == N("If", "", <<c, cons, alt>>)
If1(c, cons) == N("If", "", <<c, cons>>)
AssertOf(c) == N("Assert", "", <<c>>)
\* FixedKey.name (ast.py:970-976) is the name of the identifier or the raw
\* string of the key.
FixedKey(id) == N("FixedKey", id.name, <<id>>)
ComputedKey(e) == N("ComputedKey", "", <<e>>)
Field(key, value) == N("Field", "", <<key, value>>)
Object(binds, assertions, fields) == N("Object", "", binds \o assertions \o fields)
FieldAccess(obj, f) == N("FieldAccess", "", <<obj, FieldRef(f)>>)
Document(body) == N("Document", "", <<body>>)
Self == N("Self", "", <<>>)
ParamRef(n) == N("ParamRef", n, <<>>)
\* A named argument `n = 1`; Arg.children is the value, then the name.
Arg(n) == N("Arg", "", <<Num, ParamRef(n)>>)
Call(fn, args) == N("Call", "", <<fn>> \o args)
Dollar == N("Dollar", "", <<>>)
\* import 'path' (Import.type is "import"); the path is the name of a file.
Import(path) == N("Import", path, <<Str(path)>>)
\* A document with the file name its URI ends in, and the documents of a
\* workspace directory, side by side.
File(name, body) == N("Document", name, <<body>>)
Workspace(files) == N("Workspace", "", files)
\* for n in source; if c; [expr for_spec comp_spec...];
\* { binds, asserts, [key]: value for_spec comp_spec... }.  The kids are in
\* the order of the `children` property of the class.
ForSpec(n, source) == N("ForSpec", "", <<Var(n), source>>)
IfSpec(c) == N("IfSpec", "", <<c>>)
ListComp(expr, for_spec, comp_spec) ==
    N("ListComp", "", <<expr, for_spec>> \o comp_spec)
ObjComp(field, binds, asserts, for_spec, comp_spec) ==
    N("ObjComp", "", <<field>> \o binds \o asserts \o <<for_spec>> \o comp_spec)

NoNode == <<-1>>
Elems(sq) == {sq[i] : i \in DOMAIN sq}

RECURSIVE Sub(_, _)
Sub(t, p) == IF p = <<>> THEN t ELSE Sub(t.kids[Head(p)], Tail(p))

RECURSIVE Paths(_)
Paths(t) ==
    {<<>>} \cup UNION {{<<i>> \o q : q \in Paths(t.kids[i])} : i \in DOMAIN t.kids}

Up(p) == SubSeq(p, 1, Len(p) - 1)
IsPrefix(p, q) == Len(p) <= Len(q) /\ SubSeq(q, 1, Len(p)) = p
\* q is a proper descendant of p
Below(p, q) == IsPrefix(p, q) /\ p # q

\* The ranges the parser gives the nodes, on one line: an identifier or a
\* literal is one column wide; a composite node spans its opening token (if
\* it has one), its children separated by one token each, and its closing
\* token (if it has one).  A FixedKey has the range of its identifier.
Leaves == {"Num", "Bool", "Var", "VarRef", "IdField", "Str", "FieldRef",
           "Self", "Dollar", "Super", "ParamRef"}
Opens(kind) ==
    IF kind \in {"Local", "Fn", "Object", "ComputedKey", "If", "Array",
                 "Assert", "Import", "ListComp", "ObjComp", "ForSpec",
                 "IfSpec"} THEN 1 ELSE 0
Closes(kind) ==
    IF kind \in {"Object", "ComputedKey", "Array", "Document", "ListComp",
                 "ObjComp"} THEN 1 ELSE 0

RECURSIVE Width(_), WidthSum(_, _)
WidthSum(ks, n) == IF n = 0 THEN 0 ELSE Width(ks[n]) + WidthSum(ks, n - 1)
Width(t) ==
    IF t.kind \in Leaves THEN 1
    ELSE Opens(t.kind) + WidthSum(t.kids, Len(t.kids))
         + (IF Len(t.kids) > 1 THEN Len(t.kids) - 1 ELSE 0) + Closes(t.kind)

RECURSIVE StartOf(_, _)
StartOf(t, p) ==
    IF p = <<>> THEN DocStart
    ELSE LET up == Sub(t, Up(p))
             i == p[Len(p)]
         IN  StartOf(t, Up(p)) + Opens(up.kind) + WidthSum(up.kids, i - 1) + (i - 1)

\* Document.from_cst: the nodes of the tree, each with its class, its name,
\* the number of its children and its location.range.
Parsed(t) ==
    [p \in Paths(t) |->
        LET n == Sub(t, p)
            s == StartOf(t, p)
        IN  [kind |-> n.kind, name |-> n.name, n |-> Len(n.kids),
             range |-> [start |-> s, end |-> s + Width(n)]]]

VARIABLES
    doc,          \* the Document being analysed: path -> node
    phase,        \* Document.analysis_phase: "Parsed" or "ScopeResolved"
    scopes,       \* arena of Scope objects, indexed from 1
    top,          \* Document.top_level_scope (index into scopes, 0 = unset)
    var,          \* VarRef.var: path of VarRef -> path of Var, or NoNode
    references,   \* Var.references: path of Var -> sequence of VarRef paths
    field_scope,  \* Object.field_scope: path of Object -> scope index, 0 = None
    field_refs,   \* Document.field_refs
    seen_in,      \* per VarRef, the scope that was current when it was visited
    seen_at,      \* per VarRef, how many bindings had been made when it was visited
    query         \* the last provider request and its answer

\* The workspace around the document being analysed.
VARIABLES
    file_system,      \* the file system: path of a file -> its content
    loader,           \* the DocumentLoader: trees, workspace_path, jpaths
    workspace_index,  \* the WorkspaceIndex: docs
    heap,             \* the document objects made so far, by number
    history           \* what a caller or a reader saw before the last step

workspace == <<file_system, loader, workspace_index, heap, history>>

vars == <<doc, phase, scopes, top, var, references, field_scope, field_refs,
          seen_in, seen_at, query, workspace>>

Nodes == DOMAIN doc
Kind(p) == doc[p].kind
Name(p) == doc[p].name
Kids(p) == [i \in 1..doc[p].n |-> p \o <<i>>]
KidsOfKind(p, k) == SelectSeq(Kids(p), LAMBDA c : Kind(c) = k)
LastKid(p) == p \o <<doc[p].n>>
NodesOfKind(k) == {p \in Nodes : Kind(p) = k}

\* ---------------------------------------------------------- Scope (ast.py)
\* A Binding is [scope, name, location, bound_to]; location is the path of
\* the binding identifier (the Var, or the FixedKey of a field) and bound_to
\* the path of the target node.  `order` is a history field that numbers the
\* bindings of an arena in the order they were made; no operation reads it.
NoBinding ==
    [scope |-> 0, name |-> "", location |-> NoNode, bound_to |-> NoNode, order |-> 0]

ScopeEmpty(owner) ==
    [owner |-> owner, bindings |-> <<>>, parent |-> 0, children |-> <<>>]

RECURSIVE SumLen(_, _)
SumLen(ss, i) == IF i = 0 THEN 0 ELSE Len(ss[i].bindings) + SumLen(ss, i - 1)
BindCount(ss) == SumLen(ss, Len(ss))

NewBinding(ss, s, name, location, to) ==
    [scope |-> s, name |-> name, location |-> location, bound_to |-> to,
     order |-> BindCount(ss) + 1]

\* (mutant) the new binding goes to the back of the list.
ScopeBindLast(ss, s, name, location, to) ==
    [ss EXCEPT ![s].bindings = Append(@, NewBinding(ss, s, name, location, to))]

\* Scope._bind: a new binding goes to the front of the list.
ScopeBind(ss, s, name, location, to) ==
    [ss EXCEPT ![s].bindings = <<NewBinding(ss, s, name, location, to)>> \o @]

\* Scope.nest: the child is the new last element of the arena.
ScopeNest(ss, s, owner) ==
    Append([ss EXCEPT ![s].children = Append(@, Len(ss) + 1)],
           [owner |-> owner, bindings |-> <<>>, parent |-> s, children |-> <<>>])

\* Scope.get: the first binding of the name in the scope's own list, else
\* the parent's answer, else None.
\* (mutant) the lookup never leaves the scope it starts in.
ScopeGetOwn(ss, s, name) ==
    LET own == SelectSeq(ss[s].bindings, LAMBDA b : b.name = name)
    IN  IF own # <<>> THEN own[1] ELSE NoBinding

RECURSIVE ScopeGet(_, _, _)
ScopeGet(ss, s, name) ==
    LET own == SelectSeq(ss[s].bindings, LAMBDA b : b.name = name)
    IN  IF own # <<>> THEN own[1]
        ELSE IF ss[s].parent = 0 THEN NoBinding
        ELSE ScopeGet(ss, ss[s].parent, name)

\* ------------------------------------------------------------ ScopeResolver
\* The resolver's state while it walks the tree: the scope arena, the
\* current self.var_scope, and the links written on the nodes.
ResolverStart ==
    [scopes |-> <<ScopeEmpty(<<>>)>>,
     var_scope |-> 1,
     var |-> [p \in NodesOfKind("VarRef") |-> NoNode],
     references |-> [p \in NodesOfKind("Var") |-> <<>>],
     field_scope |-> [p \in NodesOfKind("Object") |-> 0],
     field_refs |-> <<>>,
     seen_in |-> [p \in NodesOfKind("VarRef") |-> 0],
     seen_at |-> [p \in NodesOfKind("VarRef") |-> 0]]

\* activate_var_scope(self.var_scope.nest(owner)): enter a fresh child scope.
Enter(st, owner) ==
    [st EXCEPT !.scopes = ScopeNest(@, st.var_scope, owner),
               !.var_scope = Len(st.scopes) + 1]
\* ... and the `finally` of activate_var_scope: back to the previous scope.
Leave(st, prev) == [st EXCEPT !.var_scope = prev.var_scope]

\* Visitor.visit lacks the case that sends an Id.VarRef to visit_var_ref
\* (the providers' visitors call super().visit_var_ref); this is it.
VisitsVarRef(kind) == kind = "VarRef"

\* (mutant) the reference is entered in the list of the Var but not linked.
visit_var_ref_unlinked(st, e) ==
    LET binding == ScopeGet(st.scopes, st.var_scope, Name(e))
    IN  IF binding = NoBinding THEN st
        ELSE [st EXCEPT !.seen_in[e] = st.var_scope,
                        !.seen_at[e] = BindCount(st.scopes),
                        !.references[binding.location] = Append(@, e)]

\* ScopeResolver.visit_var_ref
visit_var_ref(st, e) ==
    LET binding == ScopeGet(st.scopes, st.var_scope, Name(e))
        seen == [st EXCEPT !.seen_in[e] = st.var_scope,
                           !.seen_at[e] = BindCount(st.scopes)]
    IN  IF binding = NoBinding THEN seen
        ELSE [seen EXCEPT !.var[e] = binding.location,
                          !.references[binding.location] = Append(@, e)]

\* ScopeResolver.visit_fixed_key: e.field_scope.bind(k, f)
\* (mutant) the key is bound to the value of the field, not to the field.
visit_fixed_key_to_value(st, e, f, k) ==
    [st EXCEPT !.scopes = ScopeBind(@, st.field_scope[e], Name(k), k, f \o <<2>>)]

visit_fixed_key(st, e, f, k) ==
    [st EXCEPT !.scopes = ScopeBind(@, st.field_scope[e], Name(k), k, f)]

RECURSIVE Visit(_, _), VisitEach(_, _), visit_bind(_, _), VisitBinds(_, _),
          visit_assert(_, _), VisitAsserts(_, _), VisitKeys(_, _, _),
          VisitValues(_, _), VisitDefaults(_, _), visit_comp_spec(_, _, _),
          visit_for_spec(_, _, _, _), visit_obj_comp_next(_, _)

VisitEach(st, ps) ==
    IF ps = <<>> THEN st ELSE VisitEach(Visit(st, Head(ps)), Tail(ps))

\* ScopeResolver.visit_bind: bind in the current scope, then visit the value
\* in a child scope owned by the bind.
visit_bind(st, b) ==
    LET id == b \o <<1>>
        value == b \o <<2>>
        bound == [st EXCEPT !.scopes = ScopeBind(@, st.var_scope, Name(id), id, value)]
    IN  Leave(Visit(Enter(bound, b), value), st)

VisitBinds(st, ps) ==
    IF ps = <<>> THEN st ELSE VisitBinds(visit_bind(st, Head(ps)), Tail(ps))

\* Visitor.visit_assert
visit_assert(st, a) == VisitEach(st, Kids(a))

VisitAsserts(st, ps) ==
    IF ps = <<>> THEN st ELSE VisitAsserts(visit_assert(st, Head(ps)), Tail(ps))

\* Visitor.visit_object, first loop: the keys of the fields, in order.
\* A ComputedKey's expression is visited (Visitor.visit_computed_key).
VisitKeys(st, e, fs) ==
    IF fs = <<>> THEN st
    ELSE LET f == Head(fs)
             k == f \o <<1>>
             st1 == IF Kind(k) = "FixedKey" THEN visit_fixed_key(st, e, f, k)
                    ELSE Visit(st, k \o <<1>>)
         IN  VisitKeys(st1, e, Tail(fs))

\* Visitor.visit_object, last loop: Visitor.visit_field_value of each field.
VisitValues(st, fs) ==
    IF fs = <<>> THEN st ELSE VisitValues(Visit(st, Head(fs) \o <<2>>), Tail(fs))

\* (mutant) the object locals are bound before the keys are visited.
Visitor_visit_object_locals_first(st, e) ==
    LET fields == KidsOfKind(e, "Field")
        bound == VisitBinds(st, KidsOfKind(e, "Bind"))
        keyed == VisitKeys(bound, e, fields)
        checked == VisitAsserts(keyed, KidsOfKind(e, "Assert"))
    IN  VisitValues(checked, fields)

\* Visitor.visit_object: keys, then object locals, then assertions, then values.
Visitor_visit_object(st, e) ==
    LET fields == KidsOfKind(e, "Field")
        keyed == VisitKeys(st, e, fields)
        bound == VisitBinds(keyed, KidsOfKind(e, "Bind"))
        checked == VisitAsserts(bound, KidsOfKind(e, "Assert"))
    IN  VisitValues(checked, fields)

\* ScopeResolver.visit_object: a child var scope owned by the object, a new
\* empty field scope, then the base traversal.
visit_object(st, e) ==
    LET inner == Enter(st, e)
        scoped == [inner EXCEPT !.scopes = Append(@, ScopeEmpty(e)),
                                !.field_scope[e] = Len(inner.scopes) + 1]
    IN  Leave(Visitor_visit_object(scoped, e), st)

\* ScopeResolver.visit_local
\* (mutant) the binds are taken last to first.
visit_local_last_bind_first(st, e) ==
    LET inner == Enter(st, e)
        bs == KidsOfKind(e, "Bind")
        bound == VisitBinds(inner, [i \in 1..Len(bs) |-> bs[Len(bs) + 1 - i]])
    IN  Leave(Visit(bound, LastKid(e)), st)

visit_local(st, e) ==
    LET inner == Enter(st, e)
        bound == VisitBinds(inner, KidsOfKind(e, "Bind"))
    IN  Leave(Visit(bound, LastKid(e)), st)

\* ScopeResolver.visit_fn, first loop: bind every parameter to its Param.
RECURSIVE BindParams(_, _)
BindParams(st, ps) ==
    IF ps = <<>> THEN st
    ELSE LET p == Head(ps)
             id == p \o <<1>>
         IN  BindParams([st EXCEPT !.scopes =
                             ScopeBind(@, st.var_scope, Name(id), id, p)],
                        Tail(ps))

\* ScopeResolver.visit_fn, second loop: visit the defaults that exist.
VisitDefaults(st, ps) ==
    IF ps = <<>> THEN st
    ELSE LET p == Head(ps)
             st1 == IF doc[p].n = 2 THEN Visit(st, p \o <<2>>) ELSE st
         IN  VisitDefaults(st1, Tail(ps))

\* (mutant) every parameter is bound only after the defaults were visited.
visit_fn_binds_late(st, e) ==
    LET params == KidsOfKind(e, "Param")
        inner == Enter(st, e)
        defaults == VisitDefaults(inner, params)
        bound == BindParams(defaults, params)
    IN  Leave(Visit(bound, LastKid(e)), st)

\* ScopeResolver.visit_fn
visit_fn(st, e) ==
    LET params == KidsOfKind(e, "Param")
        inner == Enter(st, e)
        bound == BindParams(inner, params)
        defaults == VisitDefaults(bound, params)
    IN  Leave(Visit(defaults, LastKid(e)), st)

\* ScopeResolver.visit_field_access: the base visit of obj (the FieldRef is
\* a leaf no visitor case handles), then tree.field_refs.append(e.field).
visit_field_access(st, e) ==
    LET visited == Visit(st, e \o <<1>>)
    IN  [visited EXCEPT !.field_refs = Append(@, e \o <<2>>)]

\* The for and if specs of a comprehension, in order: [e.for_spec] + e.comp_spec.
CompSpecs(e) == SelectSeq(Kids(e), LAMBDA c : Kind(c) \in {"ForSpec", "IfSpec"})

\* (mutant) the computed key is visited in the scope of the object locals.
visit_obj_comp_next_key_inside(st, e) ==
    LET field == e \o <<1>>
        inner == Enter(st, e)
        bound == VisitBinds(inner, KidsOfKind(e, "Bind"))
        keyed == Visit(bound, field \o <<1, 1>>)
        checked == VisitAsserts(keyed, KidsOfKind(e, "Assert"))
    IN  Leave(Visit(checked, field \o <<2>>), st)

\* The `next` of ScopeResolver.visit_obj_comp: the computed key in the scope
\* of the specs, then a child scope owned by the comprehension for its
\* binds, its asserts and the value of its field.
visit_obj_comp_next(st, e) ==
    LET field == e \o <<1>>
        keyed == Visit(st, field \o <<1, 1>>)
        inner == Enter(keyed, e)
        bound == VisitBinds(inner, KidsOfKind(e, "Bind"))
        checked == VisitAsserts(bound, KidsOfKind(e, "Assert"))
    IN  Leave(Visit(checked, field \o <<2>>), keyed)

\* Visitor.visit_comp_spec(specs, next): each spec visits itself with the
\* rest of the chain as its continuation; after the last one comes `next`,
\* which for a ListComp visits e.expr.
visit_comp_spec(st, specs, e) ==
    IF specs = <<>> THEN
        (IF Kind(e) = "ListComp" THEN Visit(st, e \o <<1>>)
         ELSE visit_obj_comp_next(st, e))
    ELSE IF Kind(Head(specs)) = "ForSpec" THEN visit_for_spec(st, Head(specs), Tail(specs), e)
    ELSE visit_comp_spec(Visit(st, Head(specs) \o <<1>>), Tail(specs), e)

\* (mutant) the iteration variable is bound before the source is visited.
visit_for_spec_binds_first(st, s, rest, e) ==
    LET id == s \o <<1>>
        inner == Enter(st, s)
        bound == [inner EXCEPT !.scopes = ScopeBind(@, inner.var_scope, Name(id), id, s)]
    IN  Leave(visit_comp_spec(Visit(bound, s \o <<2>>), rest, e), st)

\* ScopeResolver.visit_for_spec over Visitor.visit_for_spec: the base visit
\* visits the source and then calls the continuation it was handed, which
\* runs the rest of the chain in a child scope owned by the spec, in which
\* the iteration variable is bound to the spec.
visit_for_spec(st, s, rest, e) ==
    LET id == s \o <<1>>
        visited == Visit(st, s \o <<2>>)
        inner == Enter(visited, s)
        bound == [inner EXCEPT !.scopes = ScopeBind(@, inner.var_scope, Name(id), id, s)]
    IN  Leave(visit_comp_spec(bound, rest, e), visited)

\* ScopeResolver.visit_obj_comp and Visitor.visit_list_comp
visit_obj_comp(st, e) == visit_comp_spec(st, CompSpecs(e), e)
visit_list_comp(st, e) == visit_comp_spec(st, CompSpecs(e), e)

\* Visitor.visit: dispatch on the node's class.  Document, Array, Binary and
\* If visit their children in order; leaves do nothing.
Visit(st, p) ==
    LET k == Kind(p)
    IN  CASE VisitsVarRef(k) -> visit_var_ref(st, p)
          [] k = "ListComp" -> visit_list_comp(st, p)
          [] k = "ObjComp" -> visit_obj_comp(st, p)
          [] k \in {"Document", "Array", "Binary", "If", "Call", "Arg"} ->
                VisitEach(st, Kids(p))
          [] k = "Local" -> visit_local(st, p)
          [] k = "Fn" -> visit_fn(st, p)
          [] k = "Object" -> visit_object(st, p)
          [] k = "FieldAccess" -> visit_field_access(st, p)
          [] OTHER -> st

\* ScopeResolver.resolve for each document of a workspace (DocumentLoader.load
\* resolves every tree it parses): each starts from its own top-level scope.
RECURSIVE ResolveFiles(_, _)
ResolveFiles(st, fs) ==
    IF fs = <<>> THEN st
    ELSE LET fresh == [st EXCEPT !.scopes = Append(@, ScopeEmpty(Head(fs))),
                                 !.var_scope = Len(st.scopes) + 1]
         IN  ResolveFiles(Visit(fresh, Head(fs)), Tail(fs))

\* ScopeResolver.resolve
resolve ==
    IF Kind(<<>>) = "Workspace" THEN ResolveFiles(ResolverStart, Kids(<<>>))
    ELSE Visit(ResolverStart, <<>>)

\* ------------------------------------------------------- locations (ast.py)
\* node.location.range, as [start, end]
RangeOf(p) == doc[p].range

\* range_contains
range_contains(outer, inner) == outer.start <= inner.start /\ inner.end <= outer.end

\* (mutant) the node itself is the answer, its children are not searched.
node_at_shallow(p, pos) ==
    IF range_contains(RangeOf(p), [start |-> pos, end |-> pos]) THEN p ELSE NoNode

\* AST.node_at for a Position target (turned into the empty range at it).
RECURSIVE node_at(_, _)
node_at(p, pos) ==
    LET target == [start |-> pos, end |-> pos]
        within == SelectSeq(Kids(p), LAMBDA c : range_contains(RangeOf(c), target))
        found == [i \in DOMAIN within |-> node_at(within[i], pos)]
        hits == SelectSeq(found, LAMBDA n : n # NoNode)
    IN  IF hits # <<>> THEN hits[1]
        ELSE IF range_contains(RangeOf(p), target) THEN p
        ELSE NoNode

\* Every column from the one before the document to the one after it.
Positions == 0 .. (doc[<<>>].range.end + 1)

\* ------------------------------------------------------ DefinitionProvider
\* A result of a recursion of the provider: the values it yields, or err when
\* the recursion does not end (Python raises RecursionError).
Yield(out) == [err |-> FALSE, out |-> out]
Diverges == [err |-> TRUE, out |-> <<>>]

\* Expr.tails and its overrides (Document, Local, Fn, AssertExpr, If).
RECURSIVE tails(_)

\* (mutant) If.tails leaves the alternative out.
tails_consequence(p) ==
    LET k == Kind(p)
    IN  CASE k \in {"Document", "Local", "Fn", "AssertExpr"} -> tails(LastKid(p))
          [] k = "If" -> tails(p \o <<2>>)
          [] OTHER -> <<p>>

tails(p) ==
    LET k == Kind(p)
    IN  CASE k \in {"Document", "Local", "Fn", "AssertExpr"} -> tails(LastKid(p))
          [] k = "If" ->
                tails(p \o <<2>>)
                \o (IF doc[p].n = 3 THEN tails(p \o <<3>>) ELSE <<>>)
          [] OTHER -> <<p>>

\* The classes that derive from Expr.
ExprKinds == {"Num", "Bool", "Str", "Var", "VarRef", "IdField", "FieldRef",
              "ParamRef", "Self", "Super", "Dollar", "Document", "Array",
              "Binary", "Local", "Fn", "Call", "ListComp", "Import",
              "AssertExpr", "Object", "ObjComp", "FieldAccess", "Slice", "If"}

\* FieldScope.add_child(child): the composed scope of `parent + child`, a
\* view that looks a name up in the child first and then in the parent.  A
\* field scope is the sequence of object scopes in lookup order.
add_child(parent, child) == child \o parent

\* FieldScope.get on a (composed) field scope.
FieldGet(fs, name) ==
    LET has == SelectSeq(fs, LAMBDA s : ScopeGet(scopes, s, name) # NoBinding)
    IN  IF has = <<>> THEN NoBinding ELSE ScopeGet(scopes, has[1], name)

\* DefinitionProvider.find_var_binding: ref.var, then var.binding.
find_var_binding(ref) ==
    IF var[ref] = NoNode THEN <<>>
    ELSE LET all == UNION {{scopes[s].bindings[i] : i \in DOMAIN scopes[s].bindings}
                           : s \in DOMAIN scopes}
         IN  <<CHOOSE b \in all : b.location = var[ref]>>

\* The products of the composition case: parent.add_child(child) for parent
\* in lhs_scopes for child in rhs_scopes.
RECURSIVE Pairs(_, _)
Pairs(ls, rs) ==
    IF ls = <<>> THEN <<>>
    ELSE [i \in DOMAIN rs |-> add_child(Head(ls), rs[i])] \o Pairs(Tail(ls), rs)

\* (mutant) the scopes of both sides are yielded one after the other.
compose_union(l, r) ==
    IF l.err \/ r.err THEN Diverges ELSE Yield(l.out \o r.out)

\* (mutant) nothing is yielded when one side has no scope.
compose_strict(l, r) ==
    IF l.err \/ r.err THEN Diverges ELSE Yield(Pairs(l.out, r.out))

\* The Binary(Plus) case of find_field_scope, from the scopes of the two
\* sides: the other side's when one is empty, else the products.
compose(l, r) ==
    IF l.err \/ r.err THEN Diverges
    ELSE IF l.out = <<>> THEN r
    ELSE IF r.out = <<>> THEN l
    ELSE Yield(Pairs(l.out, r.out))

\* AST.parent: AST.__post_init__ sets it on each child of the node it runs
\* for; Object.__post_init__ does not call it, so the binds, assertions and
\* fields of an Object have no parent, and the root has none.
parent(p) ==
    IF p = <<>> \/ Kind(p) = "Document" \/ Kind(Up(p)) = "Object" THEN NoNode
    ELSE Up(p)

\* DocumentLoader.get_importee: the path is looked up in the directory of
\* the importing document (all documents of a workspace lie in one
\* directory) and the document of that file is returned, None (NoNode) when
\* there is no such file.
get_importee(path) ==
    LET found == {f \in NodesOfKind("Document") : Len(f) = 1 /\ Name(f) = path}
    IN  IF found = {} THEN NoNode ELSE CHOOSE f \in found : TRUE

\* DefinitionProvider.load_importee: maybe(the importee of the Import node).
load_importee(p) ==
    IF get_importee(Name(p)) = NoNode THEN <<>> ELSE <<get_importee(Name(p))>>

\* outer_most_object of the Dollar case: the last Object met on the parent
\* chain, None (NoNode) when none is met.
RECURSIVE outer_most_object(_, _)
outer_most_object(p, so_far) ==
    IF p = NoNode THEN so_far
    ELSE IF Kind(p) = "Object" THEN outer_most_object(parent(p), p)
    ELSE outer_most_object(parent(p), so_far)

\* enclosing_object of the Self case: the first Object met on the parent
\* chain, None (NoNode) when the chain ends before one is met.
RECURSIVE enclosing_object(_)
enclosing_object(p) ==
    IF p = NoNode \/ Kind(p) = "Object" THEN p ELSE enclosing_object(parent(p))

\* maybe(obj.field_scope) of an Object or None.
ScopeOfObject(o) ==
    Yield(IF o = NoNode \/ field_scope[o] = 0 THEN <<>> ELSE << <<field_scope[o]>> >>)

RECURSIVE find_field_scope(_, _), find_field_binding(_, _), FlatScopes(_, _)

\* for x in xs for scope in find_field_scope(x)
FlatScopes(xs, d) ==
    IF xs = <<>> THEN Yield(<<>>)
    ELSE LET h == find_field_scope(Head(xs), d)
         IN  IF h.err THEN Diverges
             ELSE LET t == FlatScopes(Tail(xs), d)
                  IN  IF t.err THEN Diverges ELSE Yield(h.out \o t.out)

\* DefinitionProvider.find_field_scope; d is the recursion depth left.  The
\* cases are tried in the order of the match statement.
find_field_scope(p, d) ==
    LET k == Kind(p)
    IN  IF d = 0 THEN Diverges
        ELSE IF k = "Binary" /\ Name(p) = "+" THEN
            compose(find_field_scope(p \o <<1>>, d - 1),
                    find_field_scope(p \o <<2>>, d - 1))
        ELSE IF k = "Dollar" THEN ScopeOfObject(outer_most_object(p, NoNode))
        ELSE IF k = "FieldAccess" THEN
            LET bs == find_field_binding(p \o <<2>>, d - 1)
            IN  IF bs.err THEN Diverges
                ELSE FlatScopes([i \in DOMAIN bs.out |-> bs.out[i].bound_to \o <<2>>],
                                d - 1)
        ELSE IF k = "FieldRef" THEN find_field_scope(Up(p), d - 1)
        ELSE IF k = "VarRef" THEN
            LET bs == find_var_binding(p)
            IN  FlatScopes([i \in DOMAIN bs |-> bs[i].bound_to], d - 1)
        ELSE IF k = "Import" THEN FlatScopes(load_importee(p), d - 1)
        ELSE IF k = "Object" THEN
            Yield(IF field_scope[p] = 0 THEN <<>> ELSE << <<field_scope[p]>> >>)
        ELSE IF k = "Self" THEN ScopeOfObject(enclosing_object(p))
        ELSE IF k \in ExprKinds THEN FlatScopes(tails(p), d - 1)
        ELSE Yield(<<>>)

\* DefinitionProvider.find_field_binding: the binding of ref.name in every
\* field scope of the object expression of the enclosing FieldAccess.
find_field_binding(ref, d) ==
    IF d = 0 THEN Diverges
    ELSE LET ss == find_field_scope(Up(ref) \o <<1>>, d - 1)
             got == [i \in DOMAIN ss.out |-> FieldGet(ss.out[i], Name(ref))]
         IN  IF ss.err THEN Diverges
             ELSE Yield(SelectSeq(got, LAMBDA b : b # NoBinding))

RECURSIVE find_fn(_, _), FlatFns(_, _)

\* for x in xs for fn in find_fn(x)
FlatFns(xs, d) ==
    IF xs = <<>> THEN Yield(<<>>)
    ELSE LET h == find_fn(Head(xs), d)
         IN  IF h.err THEN Diverges
             ELSE LET t == FlatFns(Tail(xs), d)
                  IN  IF t.err THEN Diverges ELSE Yield(h.out \o t.out)

\* find_callee.find_fn; d is the recursion depth left.  The cases are tried
\* in the order of the match statement.
find_fn(p, d) ==
    LET k == Kind(p)
    IN  IF d = 0 THEN Diverges
        ELSE IF k = "Field" /\ Kind(p \o <<2>>) = "Fn" THEN Yield(<<p \o <<2>>>>)
        ELSE IF k = "FieldAccess" THEN find_fn(p \o <<2>>, d - 1)
        ELSE IF k = "Fn" THEN Yield(<<p>>)
        ELSE IF k = "FieldRef" THEN
            LET bs == find_field_binding(p, d - 1)
            IN  IF bs.err THEN Diverges
                ELSE FlatFns([i \in DOMAIN bs.out |-> bs.out[i].bound_to], d - 1)
        ELSE IF k = "VarRef" THEN
            LET bs == find_var_binding(p)
            IN  FlatFns([i \in DOMAIN bs |-> bs[i].bound_to], d - 1)
        ELSE IF k = "Import" THEN FlatFns(load_importee(p), d - 1)
        ELSE IF k \in ExprKinds THEN FlatFns(tails(p), d - 1)
        ELSE Yield(<<>>)

\* DefinitionProvider.find_callee
find_callee(call) == find_fn(call \o <<1>>, MaxDepth)

\* maybe(param.binding): the binding the resolver made for the identifier.
BindingOf(id) ==
    LET all == UNION {{scopes[s].bindings[i] : i \in DOMAIN scopes[s].bindings}
                      : s \in DOMAIN scopes}
        own == {b \in all : b.location = id}
    IN  IF own = {} THEN <<>> ELSE <<CHOOSE b \in own : TRUE>>

\* find_param_binding.find_param: the identifiers of the parameters of fn
\* that have the name, in the order of the parameters.
find_param(fn, name) ==
    LET ids == [i \in DOMAIN KidsOfKind(fn, "Param") |-> KidsOfKind(fn, "Param")[i] \o <<1>>]
    IN  SelectSeq(ids, LAMBDA id : Name(id) = name)

RECURSIVE ParamBindings(_, _)
\* for fn in fns for param in find_param(fn, name) for binding in maybe(param.binding)
ParamBindings(fns, name) ==
    IF fns = <<>> THEN <<>>
    ELSE LET ps == find_param(Head(fns), name)
             RECURSIVE Each(_)
             Each(xs) == IF xs = <<>> THEN <<>> ELSE BindingOf(Head(xs)) \o Each(Tail(xs))
         IN  Each(ps) \o ParamBindings(Tail(fns), name)

\* DefinitionProvider.find_param_binding: the enclosing call of the
\* argument, its callees, and of each the parameters of the name.
find_param_binding(ref) ==
    LET fns == find_callee(Up(Up(ref)))
    IN  IF fns.err THEN Diverges ELSE Yield(ParamBindings(fns.out, Name(ref)))

\* DefinitionProvider.find_definition: b.id.location of every binding.
find_definition(p) ==
    LET k == Kind(p)
    IN  CASE k = "VarRef" ->
                LET bs == find_var_binding(p)
                IN  Yield([i \in DOMAIN bs |-> bs[i].location])
          [] k = "FieldRef" ->
                LET bs == find_field_binding(p, MaxDepth)
                IN  IF bs.err THEN Diverges
                    ELSE Yield([i \in DOMAIN bs.out |-> bs.out[i].location])
          [] k = "ParamRef" ->
                LET bs == find_param_binding(p)
                IN  IF bs.err THEN Diverges
                    ELSE Yield([i \in DOMAIN bs.out |-> bs.out[i].location])
          [] OTHER -> Yield(<<>>)

\* DefinitionProvider.serve
serve(pos) ==
    LET node == node_at(<<>>, pos)
    IN  IF node = NoNode THEN Yield(<<>>) ELSE find_definition(node)

\* ------------------------------------------------------- ReferencesProvider
\* The FieldAccess nodes of a tree in the order Visitor.visit reaches
\* visit_field_access's own work: the object expression of an access is
\* visited before the access; an Object gives its computed keys, its binds,
\* its assertions and then its field values; an Arg its name before its value.
RECURSIVE Accesses(_), AccessesOf(_)
AccessesOf(ps) ==
    IF ps = <<>> THEN <<>> ELSE Accesses(Head(ps)) \o AccessesOf(Tail(ps))
Accesses(p) ==
    LET k == Kind(p)
        fs == KidsOfKind(p, "Field")
        keys == SelectSeq([i \in DOMAIN fs |-> fs[i] \o <<1>>],
                          LAMBDA c : Kind(c) = "ComputedKey")
    IN  CASE k = "FieldAccess" -> Accesses(p \o <<1>>) \o <<p>>
          [] k = "Object" ->
                AccessesOf(keys) \o AccessesOf(KidsOfKind(p, "Bind"))
                \o AccessesOf(KidsOfKind(p, "Assert"))
                \o AccessesOf([i \in DOMAIN fs |-> fs[i] \o <<2>>])
          [] k = "Arg" -> Accesses(p \o <<2>>) \o Accesses(p \o <<1>>)
          [] k \in {"Document", "Array", "Binary", "Local", "Bind", "Fn", "Param",
                    "Call", "If", "Assert", "ComputedKey"} -> AccessesOf(Kids(p))
          [] OTHER -> <<>>

\* FieldRefFinder.visit_field_access, for the accesses in order: an access
\* whose field has the key's name is appended once for every binding found
\* for it whose target's key equals the key (dataclass equality of two
\* FixedKeys: the same location and identifier).
RECURSIVE SearchEach(_, _)
SearchEach(es, key) ==
    IF es = <<>> THEN Yield(<<>>)
    ELSE LET ref == Head(es) \o <<2>>
             bs == IF Name(ref) = Name(key) THEN find_field_binding(ref, MaxDepth)
                   ELSE Yield(<<>>)
             hits == SelectSeq(bs.out, LAMBDA b : b.bound_to \o <<1>> = key)
             rest == SearchEach(Tail(es), key)
         IN  IF bs.err \/ rest.err THEN Diverges
             ELSE Yield([i \in DOMAIN hits |-> ref] \o rest.out)

\* FieldRefFinder(loader, key).search(tree); the references of one tree
\* have one uri, so the sort by uri keeps the order.
FieldRefFinder_search(tree, key) == SearchEach(Accesses(tree), key)

\* loader.load_all_sources(): the documents of the workspace, in the order
\* of the directory.
load_all_sources ==
    IF Kind(<<>>) = "Workspace" THEN Kids(<<>>) ELSE << <<>> >>

\* re.search of \bname\b in the source of a document: some identifier or
\* string of the document is the name.
Mentions(file, name) == \E p \in Nodes : IsPrefix(file, p) /\ Name(p) = name

\* enclosing_node(node, FixedKey, level=1): the parent, if it is a FixedKey.
enclosing_node(p) == IF p # <<>> /\ Kind(Up(p)) = "FixedKey" THEN Up(p) ELSE NoNode

\* for each document that passes the filter: the references found in it
\* (loader.load(uri, source) parses and resolves the source again, which
\* gives the tree that is cached).
RECURSIVE SearchFiles(_, _)
SearchFiles(files, key) ==
    IF files = <<>> THEN Yield(<<>>)
    ELSE LET h == FieldRefFinder_search(Head(files), key)
             t == SearchFiles(Tail(files), key)
         IN  IF h.err \/ t.err THEN Diverges ELSE Yield(h.out \o t.out)

\* ReferencesProvider.find_references
find_references(node) ==
    LET k == Kind(node)
    IN  CASE k = "IdField" ->
                IF enclosing_node(node) = NoNode THEN Yield(<<>>)
                ELSE SearchFiles(SelectSeq(load_all_sources,
                                           LAMBDA f : Mentions(f, Name(node))),
                                 enclosing_node(node))
          [] k = "Var" -> Yield(references[node])
          [] OTHER -> Yield(<<>>)

\* ReferencesProvider.serve: the locations of the references; the caller
\* gets None instead of an empty list.
references_serve(pos) ==
    LET node == node_at(<<>>, pos)
    IN  IF node = NoNode THEN Yield(<<>>) ELSE find_references(node)

\* ----------------------------------------------------------- RenameProvider
\* The edits of a rename: one TextEdit, [range, new_text], per node.
TextEdits(nodes, new_name) ==
    [i \in DOMAIN nodes |-> [range |-> RangeOf(nodes[i]), new_text |-> new_name]]

\* (mutant) the binding occurrence is left out of the edits.
rename_serve_references_only(tree, pos, new_name) ==
    LET node == node_at(tree, pos)
        k == IF node = NoNode THEN "None" ELSE Kind(node)
    IN  [uri |-> tree,
         edits |->
            CASE k = "Var" -> TextEdits(references[node], new_name)
              [] k = "VarRef" /\ var[node] # NoNode ->
                    TextEdits(references[var[node]], new_name)
              [] OTHER -> <<>>]

\* RenameProvider(tree).serve(pos, new_name): the one WorkspaceEdit, as the
\* uri its changes are keyed by and the edits of that uri.
rename_serve(tree, pos, new_name) ==
    LET node == node_at(tree, pos)
        k == IF node = NoNode THEN "None" ELSE Kind(node)
    IN  [uri |-> tree,
         edits |->
            CASE k = "Var" -> TextEdits(Append(references[node], node), new_name)
              [] k = "VarRef" /\ var[node] # NoNode ->
                    TextEdits(Append(references[var[node]], var[node]), new_name)
              [] OTHER -> <<>>]

\* --------------------------------------------------- DocumentSymbolProvider
\* A DocumentSymbol, as the identifier it names and its depth under the
\* root symbol; a traversal gives them in the order they are added, or
\* raises (err).
Then(a, b) == IF a.err \/ b.err THEN Diverges ELSE Yield(a.out \o b.out)
Symbol(id, depth) == Yield(<<[name |-> Name(id), id |-> id, depth |-> depth]>>)

RECURSIVE Symbols(_, _), SymbolsEach(_, _), SymbolsOfFields(_, _),
          SymbolsOfSpecs(_, _, _)

SymbolsEach(ps, depth) ==
    IF ps = <<>> THEN Yield(<<>>)
    ELSE Then(Symbols(Head(ps), depth), SymbolsEach(Tail(ps), depth))

\* DocumentSymbolProvider.visit_object, the loop over the fields: a fixed
\* key gives a symbol named k.id.name that encloses the value, and a Str
\* has no attribute `name`; a computed key is visited, then the value.
SymbolsOfFields(fs, depth) ==
    IF fs = <<>> THEN Yield(<<>>)
    ELSE LET k == Head(fs) \o <<1>>
             value == Head(fs) \o <<2>>
             one == IF Kind(k) = "FixedKey" THEN
                        (IF Kind(k \o <<1>>) = "Str" THEN Diverges
                         ELSE Then(Symbol(k \o <<1>>, depth), Symbols(value, depth + 1)))
                    ELSE Then(Symbols(k \o <<1>>, depth), Symbols(value, depth))
         IN  IF one.err THEN Diverges ELSE Then(one, SymbolsOfFields(Tail(fs), depth))

\* Visitor.visit_comp_spec under DocumentSymbolProvider.visit_for_spec: the
\* source of a for spec, its symbol, then the rest of the chain; at the end
\* the expression of a ListComp, or the key, binds, asserts and value of an
\* ObjComp.
SymbolsOfSpecs(specs, e, depth) ==
    IF specs = <<>> THEN
        (IF Kind(e) = "ListComp" THEN Symbols(e \o <<1>>, depth)
         ELSE Then(Symbols(e \o <<1, 1, 1>>, depth),
                   Then(SymbolsEach(KidsOfKind(e, "Bind"), depth),
                        Then(SymbolsEach(KidsOfKind(e, "Assert"), depth),
                             Symbols(e \o <<1, 2>>, depth)))))
    ELSE IF Kind(Head(specs)) = "ForSpec" THEN
        Then(Symbols(Head(specs) \o <<2>>, depth),
             Then(Symbol(Head(specs) \o <<1>>, depth),
                  SymbolsOfSpecs(Tail(specs), e, depth)))
    ELSE Then(Symbols(Head(specs) \o <<1>>, depth),
              SymbolsOfSpecs(Tail(specs), e, depth))

\* Visitor.visit with the overrides of DocumentSymbolProvider (visit_bind,
\* visit_param, visit_object, visit_for_spec).
Symbols(p, depth) ==
    LET k == Kind(p)
    IN  CASE k = "Bind" ->
                Then(Symbol(p \o <<1>>, depth), Symbols(p \o <<2>>, depth + 1))
          [] k = "Param" ->
                Then(Symbol(p \o <<1>>, depth),
                     IF doc[p].n = 2 THEN Symbols(p \o <<2>>, depth + 1) ELSE Yield(<<>>))
          [] k = "Object" ->
                Then(SymbolsOfFields(KidsOfKind(p, "Field"), depth),
                     Then(SymbolsEach(KidsOfKind(p, "Bind"), depth),
                          SymbolsEach(KidsOfKind(p, "Assert"), depth)))
          [] k \in {"ListComp", "ObjComp"} -> SymbolsOfSpecs(CompSpecs(p), p, depth)
          [] k = "FieldAccess" -> Symbols(p \o <<1>>, depth)
          [] k = "Arg" -> Symbols(p \o <<1>>, depth)
          [] k \in {"Document", "Array", "Binary", "Local", "Fn", "Call", "If",
                    "Assert"} -> SymbolsEach(Kids(p), depth)
          [] OTHER -> Yield(<<>>)

\* DocumentSymbolProvider().serve(tree)
DocumentSymbolProvider_serve(tree) == Symbols(tree, 0)

\* ---------------------------------------------------------------- documents
\* The documents analysed.  Identifiers in the holes range over Names.

\* local a = 1; function(P1 = R1, P2) R2
\* local a = 1; function(P1 = R1, P2) local S = 1; R2
FnDocs ==
    {Document(Local(<<Bind("a", Num)>>,
                    Fn(<<ParamD(p1, VarRef(r1)), Param(p2)>>, VarRef(r2))))
        : p1 \in Names, p2 \in Names, r1 \in Names, r2 \in Names}
    \cup
    {Document(Local(<<Bind("a", Num)>>,
                    Fn(<<ParamD(p1, VarRef(r1)), Param(p2)>>,
                       Local(<<Bind(sh, Num)>>, VarRef(r2)))))
        : p1 \in Names, p2 \in Names, r1 \in Names, r2 \in Names, sh \in Names}

\* function(p1 = p2, p2, p3 = p1) p1 + p2 + p3
FnExample ==
    Document(Fn(<<ParamD("p1", VarRef("p2")), Param("p2"), ParamD("p3", VarRef("p1"))>>,
                Plus(Plus(VarRef("p1"), VarRef("p2")), VarRef("p3"))))

\* local a = 1; { local L = R0, assert R1, [R2]: R3, k: 1 }
ObjDocs ==
    {Document(Local(<<Bind("a", Num)>>,
                    Object(<<Bind(l, VarRef(r0))>>,
                           <<AssertOf(VarRef(r1))>>,
                           <<Field(ComputedKey(VarRef(r2)), VarRef(r3)),
                             Field(FixedKey(IdField("k")), Num)>>)))
        : l \in Names, r0 \in Names, r1 \in Names, r2 \in Names, r3 \in Names}

\* { K1: 1, "K2": R, K3: { K1: 2 } }.K1
KeyDocs ==
    {Document(FieldAccess(
                Object(<<>>, <<>>,
                       <<Field(FixedKey(IdField(k1)), Num),
                         Field(FixedKey(Str(k2)), VarRef(k1)),
                         Field(FixedKey(IdField(k3)),
                               Object(<<>>, <<>>, <<Field(FixedKey(IdField(k1)), Num)>>))>>),
                k1))
        : k1 \in Names, k2 \in Names, k3 \in Names}

\* local a = 1; local X1 = R1, X2 = R2; R3
LocalDocs ==
    {Document(Local(<<Bind("a", Num)>>,
                    Local(<<Bind(x1, VarRef(r1)), Bind(x2, VarRef(r2))>>, VarRef(r3))))
        : x1 \in Names, x2 \in Names, r1 \in Names, r2 \in Names, r3 \in Names}

ResolverDocs == FnDocs \cup {FnExample} \cup ObjDocs \cup KeyDocs \cup LocalDocs

\* ------------------------------------------------------------ specification
NoQuery == [op |-> "none"]

\* No loader and no index: one document is analysed by itself.
NoWorkspace ==
    /\ file_system = <<>>
    /\ loader = [trees |-> <<>>, workspace_path |-> <<>>, jpaths |-> <<>>]
    /\ workspace_index = [docs |-> <<>>]
    /\ heap = <<>>
    /\ history = <<>>

InitWith(docs) ==
    /\ NoWorkspace
    /\ doc \in {Parsed(t) : t \in docs}
    /\ phase = "Parsed"
    /\ scopes = <<>>
    /\ top = 0
    /\ var = <<>>
    /\ references = <<>>
    /\ field_scope = <<>>
    /\ field_refs = <<>>
    /\ seen_in = <<>>
    /\ seen_at = <<>>
    /\ query = NoQuery

Init == InitWith(ResolverDocs)


\* ScopeResolver().resolve(Document.from_cst(uri, cst))
Resolve ==
    /\ phase = "Parsed"
    /\ LET r == resolve
       IN  /\ scopes' = r.scopes
           /\ top' = r.var_scope
           /\ var' = r.var
           /\ references' = r.references
           /\ field_scope' = r.field_scope
           /\ field_refs' = r.field_refs
           /\ seen_in' = r.seen_in
           /\ seen_at' = r.seen_at
    /\ phase' = "ScopeResolved"
    /\ UNCHANGED <<doc, query, workspace>>

\* tree.node_at(pos)
NodeAt ==
    \E pos \in Positions :
        /\ query = NoQuery
        /\ query' = [op |-> "node_at", pos |-> pos, node |-> node_at(<<>>, pos)]
        /\ UNCHANGED <<workspace, doc, phase, scopes, top, var, references, field_scope,
                       field_refs, seen_in, seen_at>>

\* DefinitionProvider(loader).serve(tree, pos); the provider asserts the phase.
Definition ==
    \E pos \in Positions :
        /\ phase = "ScopeResolved"
        /\ query = NoQuery
        /\ LET r == serve(pos)
           IN  query' = [op |-> "definition", pos |-> pos,
                         node |-> node_at(<<>>, pos),
                         raised |-> r.err, locations |-> r.out]
        /\ UNCHANGED <<workspace, doc, phase, scopes, top, var, references, field_scope,
                       field_refs, seen_in, seen_at>>

\* The answer is returned; the next request can be served.
Reply ==
    /\ query # NoQuery
    /\ query' = NoQuery
    /\ UNCHANGED <<workspace, doc, phase, scopes, top, var, references, field_scope,
                   field_refs, seen_in, seen_at>>

Next == Resolve \/ NodeAt \/ Definition \/ Reply

Spec == Init /\ [][Next]_vars

\* { k: 1 }
ObjK(k) == Object(<<>>, <<>>, <<Field(FixedKey(IdField(k)), Num)>>)

\* The operands of the field documents: an object, the variable o (bound
\* to an object) and the variable u (bound nowhere).
Base == {ObjK(k) : k \in Names} \cup {VarRef("o"), VarRef("u")}
Conds ==
    {If(BoolT, x, y) : x \in Base, y \in Base} \cup {If1(BoolT, x) : x \in Base}
ObjConds == {If(BoolT, ObjK(k1), ObjK(k2)) : k1 \in Names, k2 \in Names}
SameConds == {If(BoolT, ObjK(k), ObjK(k)) : k \in Names}
FieldExprs ==
    Base \cup Conds
    \cup {Plus(x, y) : x \in Base \cup Conds, y \in Base}
    \cup {Plus(x, y) : x \in Base, y \in ObjConds \cup {If1(BoolT, z) : z \in Base}}
    \cup {Plus(x, y) : x \in SameConds, y \in ObjConds}

\* local o = { a: 1 }; (E).F
ExprDocs ==
    {Document(Local(<<Bind("o", ObjK(NamePool[1]))>>, FieldAccess(e, f)))
        : e \in FieldExprs, f \in Names}

\* local o = { a: 1 }, v = if true then X [else Y]; v.F
CondDocs ==
    {Document(Local(<<Bind("o", ObjK(NamePool[1])), Bind("v", c)>>,
                    FieldAccess(VarRef("v"), f)))
        : c \in Conds, f \in Names}

\* local o = { f: 1 }; (o + { f: 2 }).f
VarObjExample ==
    Document(Local(<<Bind("o", ObjK(NamePool[1]))>>,
                   FieldAccess(Plus(VarRef("o"), ObjK(NamePool[1])), NamePool[1])))

FieldDocs == ExprDocs \cup CondDocs \cup {VarObjExample}

InitFields == InitWith(FieldDocs)
SpecFields == InitFields /\ [][Next]_vars

\* { F: 1, g: { h: X.I, J: 2 }, K: 3 } with X one of self and $, and
\* { local r = X, F: 1, g: r.I }
SelfDocs ==
    {Document(Object(<<>>, <<>>,
        <<Field(FixedKey(IdField(f)), Num),
          Field(FixedKey(IdField("g")),
                Object(<<>>, <<>>,
                       <<Field(FixedKey(IdField("h")), FieldAccess(x, i)),
                         Field(FixedKey(IdField(j)), Num)>>)),
          Field(FixedKey(IdField(k)), Num)>>))
        : x \in {Self, Dollar}, f \in Names, i \in Names, j \in Names, k \in Names}
    \cup
    {Document(Object(<<Bind("r", x)>>, <<>>,
        <<Field(FixedKey(IdField(f)), Num),
          Field(FixedKey(IdField("g")), FieldAccess(VarRef("r"), i))>>))
        : x \in {Self, Dollar}, f \in Names, i \in Names}

InitSelf == InitWith(SelfDocs)
SpecSelf == InitSelf /\ [][Next]_vars

\* function(P) P and { a: function(P) P }
FnP(p) == Fn(<<Param(p)>>, VarRef(p))
ObjFn(p) == Object(<<>>, <<>>, <<Field(FixedKey(IdField(NamePool[1])), FnP(p))>>)

\* The values the variable f of the call documents is bound to.
CalleeValues ==
    {FnP(p) : p \in Names} \cup {ObjFn(p) : p \in Names}
    \cup {Fn(<<Param(p1), Param(p2)>>, Num) : p1 \in Names, p2 \in Names}
    \cup {If(BoolT, FnP(p1), FnP(p2)) : p1 \in Names, p2 \in Names}
    \cup {If(BoolT, ObjFn(p1), ObjFn(p2)) : p1 \in Names, p2 \in Names}
    \cup {Num}

\* local f = V; C(X = 1) with C one of f, f.a, u (bound nowhere) and a
\* function literal.
CallDocs ==
    {Document(Local(<<Bind("f", v)>>, Call(c, <<Arg(x)>>)))
        : v \in CalleeValues,
          c \in {VarRef("f"), FieldAccess(VarRef("f"), NamePool[1]), VarRef("u"),
                 FnP(NamePool[1])},
          x \in Names}

InitCall == InitWith(CallDocs)
SpecCall == InitCall /\ [][Next]_vars

\* Documents without imports on which the recursions of the provider are
\* followed to their end:
\*   local x = V; x.F           with V one of x, 1, { a: 1 }, if true then x
\*   { F: self.G }.H  and  { F: self.G }.H.a
\*   local f = V; f(a = 1)      with V one of f, 1, function(a) a
TermDocs ==
    {Document(Local(<<Bind("x", v)>>, FieldAccess(VarRef("x"), f)))
        : v \in {VarRef("x"), Num, ObjK(NamePool[1]), If1(BoolT, VarRef("x"))},
          f \in Names}
    \cup
    {Document(FieldAccess(
        Object(<<>>, <<>>, <<Field(FixedKey(IdField(f)), FieldAccess(Self, g))>>), h))
        : f \in Names, g \in Names, h \in Names}
    \cup
    {Document(FieldAccess(FieldAccess(
        Object(<<>>, <<>>, <<Field(FixedKey(IdField(f)), FieldAccess(Self, g))>>), h),
        NamePool[1]))
        : f \in Names, g \in Names, h \in Names}
    \cup
    {Document(Local(<<Bind("f", v)>>, Call(VarRef("f"), <<Arg(NamePool[1])>>)))
        : v \in {VarRef("f"), Num, FnP(NamePool[1])}}

InitTerm == InitWith(TermDocs)
SpecTerm == InitTerm /\ [][Next]_vars

\* Comprehensions:
\*   local a = 1; [R3 for I in R1 if R2]
\*   local a = 1; [R3 for I in R1 for J in R2]
\*   local a = 1; { local L = 2, assert C, [K]: R, for I in S }
CompDocs ==
    {Document(Local(<<Bind("a", Num)>>,
                    ListComp(VarRef(r3), ForSpec(i, VarRef(r1)), <<IfSpec(VarRef(r2))>>)))
        : i \in Names, r1 \in Names, r2 \in Names, r3 \in Names}
    \cup
    {Document(Local(<<Bind("a", Num)>>,
                    ListComp(VarRef(r3), ForSpec(i, VarRef(r1)),
                             <<ForSpec(j, VarRef(r2))>>)))
        : i \in Names, j \in Names, r1 \in Names, r2 \in Names, r3 \in Names}
    \cup
    {Document(Local(<<Bind("a", Num)>>,
                    ObjComp(Field(ComputedKey(VarRef(k)), VarRef(r)),
                            <<Bind(l, Num)>>, <<AssertOf(VarRef(c))>>,
                            ForSpec(i, VarRef(s)), <<>>)))
        : l \in Names, c \in Names, k \in Names, r \in Names, i \in Names, s \in Names}

InitComp == InitWith(CompDocs)
SpecComp == InitComp /\ [][Next]_vars

\* ReferencesProvider(loader).serve(tree, pos); the provider asserts the phase.
References ==
    \E pos \in Positions :
        /\ phase = "ScopeResolved"
        /\ query = NoQuery
        /\ LET r == references_serve(pos)
           IN  query' = [op |-> "references", pos |-> pos,
                         node |-> node_at(<<>>, pos),
                         raised |-> r.err, locations |-> r.out,
                         none |-> (~r.err /\ r.out = <<>>)]
        /\ UNCHANGED <<workspace, doc, phase, scopes, top, var, references, field_scope,
                       field_refs, seen_in, seen_at>>

\* The names a rename request may ask for.
NewNames == {"z", NamePool[1]}

\* RenameProvider(tree).serve(pos, new_name), for a document of the workspace.
\* RenameProvider.prepare: the range and the name of the Var or VarRef at
\* the position, as a set that is empty for None.
rename_prepare(tree, pos) ==
    LET node == node_at(tree, pos)
    IN  IF node # NoNode /\ Kind(node) \in {"Var", "VarRef"}
        THEN {[range |-> RangeOf(node), placeholder |-> Name(node)]}
        ELSE {}

\* RenameProvider(tree).prepare(pos)
PrepareRename ==
    \E tree \in Elems(load_all_sources), pos \in Positions :
        /\ phase = "ScopeResolved"
        /\ query = NoQuery
        /\ query' = [op |-> "prepareRename", pos |-> pos, tree |-> tree,
                     node |-> node_at(tree, pos),
                     prepared |-> rename_prepare(tree, pos)]
        /\ UNCHANGED <<workspace, doc, phase, scopes, top, var, references, field_scope,
                       field_refs, seen_in, seen_at>>

Rename ==
    \E tree \in Elems(load_all_sources), pos \in Positions, new_name \in NewNames :
        /\ phase = "ScopeResolved"
        /\ query = NoQuery
        /\ LET r == rename_serve(tree, pos, new_name)
           IN  query' = [op |-> "rename", pos |-> pos, new_name |-> new_name,
                         tree |-> tree, node |-> node_at(tree, pos),
                         uri |-> r.uri, edits |-> r.edits]
        /\ UNCHANGED <<workspace, doc, phase, scopes, top, var, references, field_scope,
                       field_refs, seen_in, seen_at>>

\* DocumentSymbolProvider().serve(tree), for a document of the workspace.
DocumentSymbol ==
    \E tree \in Elems(load_all_sources) :
        /\ phase = "ScopeResolved"
        /\ query = NoQuery
        /\ LET r == DocumentSymbolProvider_serve(tree)
           IN  query' = [op |-> "documentSymbol", tree |-> tree, node |-> NoNode,
                         raised |-> r.err, symbols |-> r.out]
        /\ UNCHANGED <<workspace, doc, phase, scopes, top, var, references, field_scope,
                       field_refs, seen_in, seen_at>>

NextRefs ==
    \/ Resolve \/ NodeAt \/ Definition \/ References \/ PrepareRename \/ Rename
    \/ DocumentSymbol \/ Reply

\* The documents of the resolver, with the requests for references and
\* for a rename.
SpecVars == Init /\ [][NextRefs]_vars

\* A workspace of three documents: p defines a field (or accesses one of a
\* local object, or is what q is), q accesses a field of an imported
\* document, of a composition with one, of an object of its own or of a
\* number, or passes p or itself on; r accesses a field of what q is, or
\* calls it.
FilesP ==
    {ObjK(k) : k \in Names}
    \cup {Local(<<Bind("o", ObjK(k))>>, FieldAccess(VarRef("o"), k)) : k \in Names}
    \cup {Import("q")}
FilesQ ==
    {FieldAccess(Import(t), k) : t \in {"p", "q", "m"}, k \in Names}
    \cup {FieldAccess(Plus(Import("p"), ObjK(k1)), k2) : k1 \in Names, k2 \in Names}
    \cup {FieldAccess(ObjK(k), k) : k \in Names}
    \cup {Local(<<Bind("x", Num)>>, FieldAccess(VarRef("x"), k)) : k \in Names}
    \cup {Import("p"), Import("q")}
FilesR ==
    {FieldAccess(Import("q"), NamePool[1]),
     Call(Import("q"), <<Arg(NamePool[1])>>), Num}
RefDocs ==
    {Workspace(<<File("p", a), File("q", b), File("r", c)>>) :
        a \in FilesP, b \in FilesQ, c \in FilesR}

InitRefs == InitWith(RefDocs)
SpecRefs == InitRefs /\ [][NextRefs]_vars

\* ----------------------------------------------------------- DocumentLoader
\* A file is named by its directory (a sequence of parts) and its name; a URI
\* is the path it stands for.  The content of a file is a source text, or
\* one of: Absent, no such file; Unreadable, a file whose read_text raises.
Absent == [form |-> "absent"]
Unreadable == [form |-> "unreadable"]
\* Sources from which Document.from_cst builds a Document, and one for which
\* AST.from_cst ends in an ErrorAST.
GoodSources == {[form |-> "text", version |-> v] : v \in 1..2}
BadSource == [form |-> "error"]
Sources == GoodSources \cup {BadSource}
None == [form |-> "None"]

\* Path.is_file
is_file(path) == path \in DOMAIN file_system /\ file_system[path] # Absent

\* DocumentLoader.load_source: the text of the file, None when it is no file.
load_source(uri) ==
    IF ~is_file(uri) THEN [raised |-> FALSE, source |-> None]
    ELSE IF file_system[uri] = Unreadable THEN [raised |-> TRUE, source |-> None]
    ELSE [raised |-> FALSE, source |-> file_system[uri]]

\* AST.from_cst(uri, parse_jsonnet(source))
from_cst(uri, source) ==
    [class |-> IF source \in GoodSources THEN "Document" ELSE "ErrorAST",
     uri |-> uri, source |-> source, analysis_phase |-> "Parsed"]

\* ScopeResolver().resolve(tree), as far as the loader sees it.
ScopeResolver_resolve(tree) == [tree EXCEPT !.analysis_phase = "ScopeResolved"]

\* self.trees[uri] = tree
Cached(trees, uri, tree) ==
    [u \in DOMAIN trees \cup {uri} |-> IF u = uri THEN tree ELSE trees[u]]

\* What a call of the loader leaves: the cache, the objects, the object it
\* returns (0 for None), whether it raised, and how often it read a file.
Outcome(trees, objects, result, raised, reads) ==
    [trees |-> trees, heap |-> objects, result |-> result, raised |-> raised,
     reads |-> reads]

\* (mutant) a failed load is remembered as None.
load_caches_failure(uri, source) ==
    LET read == IF source = None THEN load_source(uri)
                ELSE [raised |-> FALSE, source |-> source]
        reads == IF source = None /\ is_file(uri) THEN 1 ELSE 0
        tree == from_cst(uri, read.source)
    IN  IF read.raised THEN Outcome(loader.trees, heap, 0, TRUE, reads)
        ELSE IF read.source # None /\ tree.class = "Document" THEN
            Outcome(Cached(loader.trees, uri, Len(heap) + 1),
                    Append(heap, ScopeResolver_resolve(tree)),
                    Len(heap) + 1, FALSE, reads)
        ELSE Outcome(Cached(loader.trees, uri, 0), heap, 0, FALSE, reads)

\* DocumentLoader.load
load(uri, source) ==
    LET read == IF source = None THEN load_source(uri)
                ELSE [raised |-> FALSE, source |-> source]
        reads == IF source = None /\ is_file(uri) THEN 1 ELSE 0
        tree == from_cst(uri, read.source)
    IN  IF read.raised THEN Outcome(loader.trees, heap, 0, TRUE, reads)
        ELSE IF read.source # None /\ tree.class = "Document" THEN
            Outcome(Cached(loader.trees, uri, Len(heap) + 1),
                    Append(heap, ScopeResolver_resolve(tree)),
                    Len(heap) + 1, FALSE, reads)
        ELSE Outcome(loader.trees, heap, 0, FALSE, reads)

\* DocumentLoader.get
get(uri, source) ==
    IF uri \in DOMAIN loader.trees
    THEN Outcome(loader.trees, heap, loader.trees[uri], FALSE, 0)
    ELSE load(uri, source)

\* The documents the loader is asked for.
LoaderUris == {<<"ws", "x">>, <<"ws", "y">>}

\* A loader with an empty cache over a directory with one file.
InitLoader ==
    /\ doc = Parsed(Document(Num))
    /\ phase = "Parsed"
    /\ scopes = <<>>
    /\ top = 0
    /\ var = <<>>
    /\ references = <<>>
    /\ field_scope = <<>>
    /\ field_refs = <<>>
    /\ seen_in = <<>>
    /\ seen_at = <<>>
    /\ query = NoQuery
    /\ file_system = [u \in LoaderUris |-> IF u[2] = "x" THEN [form |-> "text", version |-> 1]
                                         ELSE Absent]
    /\ loader = [trees |-> <<>>, workspace_path |-> <<"ws">>, jpaths |-> <<>>]
    /\ workspace_index = [docs |-> <<>>]
    /\ heap = <<>>
    /\ history = [last_loaded |-> [u \in LoaderUris |-> 0]]

AnalysisFrame == <<doc, phase, scopes, top, var, references, field_scope,
                   field_refs, seen_in, seen_at>>

\* The call and what it gave, with the cache as it was before the call.
Called(op, uri, source, r) ==
    [op |-> op, uri |-> uri, source |-> source, result |-> r.result,
     raised |-> r.raised, reads |-> r.reads,
     trees_before |-> loader.trees, heap_before |-> heap,
     file |-> file_system[uri]]

\* loader.load(uri, source)
Load ==
    \E uri \in LoaderUris, source \in Sources \cup {None} :
        /\ query = NoQuery
        /\ Len(heap) < MaxObjects
        /\ LET r == load(uri, source)
           IN  /\ loader' = [loader EXCEPT !.trees = r.trees]
               /\ heap' = r.heap
               /\ query' = Called("load", uri, source, r)
               /\ history' = [history EXCEPT !.last_loaded[uri] =
                                 IF r.result # 0 THEN r.result ELSE @]
        /\ UNCHANGED <<AnalysisFrame, file_system, workspace_index>>

\* loader.get(uri, source)
Get ==
    \E uri \in LoaderUris, source \in Sources \cup {None} :
        /\ query = NoQuery
        /\ Len(heap) < MaxObjects
        /\ LET r == get(uri, source)
           IN  /\ loader' = [loader EXCEPT !.trees = r.trees]
               /\ heap' = r.heap
               /\ query' = Called("get", uri, source, r)
               /\ history' = [history EXCEPT !.last_loaded[uri] =
                                 IF Len(r.heap) > Len(heap) THEN r.result ELSE @]
        /\ UNCHANGED <<AnalysisFrame, file_system, workspace_index>>

\* A file is written, removed or made unreadable outside the server.
Edit ==
    \E path \in LoaderUris, content \in Sources \cup {Absent, Unreadable} :
        /\ query = NoQuery
        /\ file_system[path] # content
        /\ file_system' = [file_system EXCEPT ![path] = content]
        /\ UNCHANGED <<AnalysisFrame, query, loader, workspace_index, heap, history>>

NextLoader == Load \/ Get \/ Edit \/ Reply

\* for tree in maybe(self.loader.load(uri, source)), for each file that
\* passed the filter, in turn: every source that parses to a Document is
\* resolved and stored under its uri.
RECURSIVE LoadEach(_, _, _)
LoadEach(files, trees, objects) ==
    IF files = <<>> THEN [trees |-> trees, heap |-> objects]
    ELSE LET uri == Head(files)
             tree == from_cst(uri, file_system[uri])
         IN  IF tree.class = "Document"
             THEN LoadEach(Tail(files), Cached(trees, uri, Len(objects) + 1),
                           Append(objects, ScopeResolver_resolve(tree)))
             ELSE LoadEach(Tail(files), trees, objects)

\* The files of the workspace directory, in the order of the walk.
WorkspaceFiles == << <<"ws", "x">>, <<"ws", "y">> >>

\* ReferencesProvider.find_references on the id of a field: the sources of
\* the workspace are read from the disk, and every file in which the name
\* occurs (matching) is loaded with the source that was read.
FieldReferences ==
    \E matching \in SUBSET {u \in LoaderUris : file_system[u] \in Sources} :
        /\ query = NoQuery
        /\ Len(heap) + Len(WorkspaceFiles) <= MaxObjects
        /\ \A u \in LoaderUris : file_system[u] # Unreadable
        /\ LET files == SelectSeq(WorkspaceFiles, LAMBDA u : u \in matching)
               r == LoadEach(files, loader.trees, heap)
           IN  /\ loader' = [loader EXCEPT !.trees = r.trees]
               /\ heap' = r.heap
               /\ query' = [op |-> "references", files |-> files,
                            trees_before |-> loader.trees, heap_before |-> heap]
               /\ history' = [history EXCEPT !.last_loaded =
                                 [u \in LoaderUris |->
                                     IF u \in DOMAIN r.trees THEN r.trees[u] ELSE @[u]]]
        /\ UNCHANGED <<AnalysisFrame, file_system, workspace_index>>

NextSearch == Load \/ Edit \/ FieldReferences \/ Reply

SpecSearch == InitLoader /\ [][NextSearch]_vars

SpecLoader == InitLoader /\ [][NextLoader]_vars

\* ------------------------------------------- DocumentLoader: import paths
\* The directories there are, in the order workspace_path.walk() gives
\* those of the workspace, and one outside of it.
WorkspacePath == <<"ws">>
WalkDirs == <<WorkspacePath, <<"ws", "lib">>, <<"ws", "vendor">>>>
OutsideDir == <<"opt">>
ImportDirs == Elems(WalkDirs) \cup {OutsideDir}
ImportFiles == {d \o <<"x">> : d \in ImportDirs}

\* A path as written: absolute or not, and its parts.
AbsolutePath(parts) == [absolute |-> TRUE, parts |-> parts]
RelativePath(parts) == [absolute |-> FALSE, parts |-> parts]

\* The search directories a user can configure, and the lists of them.
JPathChoices ==
    {AbsolutePath(OutsideDir), RelativePath(<<"vendor">>), RelativePath(<<"lib">>)}
JPathConfigs ==
    {<<>>} \cup {<<j>> : j \in JPathChoices}
    \cup {<<j1, j2>> : j1 \in JPathChoices, j2 \in JPathChoices}

\* The paths an import can name.
Importees ==
    {RelativePath(<<"x">>), AbsolutePath(OutsideDir \o <<"x">>),
     AbsolutePath(OutsideDir \o <<"y">>)}

EndsWith(dir, parts) ==
    Len(parts) <= Len(dir)
    /\ SubSeq(dir, Len(dir) - Len(parts) + 1, Len(dir)) = parts

RECURSIVE Expanded(_)
\* for jpath in jpaths, not absolute, with parts: for dir_path in the walk
\* of the workspace whose last parts are the jpath's
Expanded(jpaths) ==
    IF jpaths = <<>> THEN <<>>
    ELSE LET j == Head(jpaths)
         IN  (IF ~j.absolute /\ j.parts # <<>>
              THEN SelectSeq(WalkDirs, LAMBDA d : EndsWith(d, j.parts))
              ELSE <<>>) \o Expanded(Tail(jpaths))

Directories(jpaths) == [i \in DOMAIN jpaths |-> jpaths[i].parts]

\* DocumentLoader.resolve_jpaths: the absolute ones, then the directories
\* of the workspace that the relative ones name.
resolve_jpaths(jpaths) ==
    Directories(SelectSeq(jpaths, LAMBDA j : j.absolute))
    \o (IF loader.workspace_path = <<>> THEN <<>> ELSE Expanded(jpaths))

\* The first of the candidates that is a file, None (<<>>) if none is.
FirstFile(candidates) ==
    LET files == SelectSeq(candidates, is_file)
    IN  IF files = <<>> THEN <<>> ELSE Head(files)

\* (mutant) the workspace root is searched before the configured directories.
resolve_importee_root_first(importer, importee) ==
    IF importee.absolute THEN importee.parts
    ELSE LET search_dirs ==
                 <<Up(importer)>>
                 \o (IF loader.workspace_path = <<>> THEN <<>>
                     ELSE <<loader.workspace_path>>)
                 \o loader.jpaths
         IN  FirstFile([i \in DOMAIN search_dirs |-> search_dirs[i] \o importee.parts])

\* DocumentLoader.resolve_importee, for an Importee of the document
\* `importer` with the path `importee`: the path found, None (<<>>) if none.
resolve_importee(importer, importee) ==
    IF importee.absolute THEN importee.parts
    ELSE LET search_dirs ==
                 <<Up(importer)>> \o loader.jpaths
                 \o (IF loader.workspace_path = <<>> THEN <<>>
                     ELSE <<loader.workspace_path>>)
         IN  FirstFile([i \in DOMAIN search_dirs |-> search_dirs[i] \o importee.parts])

\* DocumentLoader.get_importee of the loader, as an Outcome.
DocumentLoader_get_importee(importer, importee) ==
    LET path == resolve_importee(importer, importee)
    IN  IF path # <<>> THEN get(path, None)
        ELSE Outcome(loader.trees, heap, 0, FALSE, 0)

\* A loader of the workspace, or of no workspace, with nothing configured
\* and nothing cached; any of the files may be there.
InitImport ==
    /\ doc = Parsed(Document(Num))
    /\ phase = "Parsed"
    /\ scopes = <<>>
    /\ top = 0
    /\ var = <<>>
    /\ references = <<>>
    /\ field_scope = <<>>
    /\ field_refs = <<>>
    /\ seen_in = <<>>
    /\ seen_at = <<>>
    /\ query = NoQuery
    /\ file_system \in [ImportFiles -> {Absent, [form |-> "text", version |-> 1]}]
    /\ loader \in {[trees |-> <<>>, workspace_path |-> w, jpaths |-> <<>>] :
                      w \in {WorkspacePath, <<>>}}
    /\ workspace_index = [docs |-> <<>>]
    /\ heap = <<>>
    /\ history = [configured |-> <<>>]

\* The documents that import.
Importers == {WorkspacePath \o <<"main">>, <<"ws", "lib", "main">>}

\* loader.resolve_jpaths(jpaths)
ResolveJpaths ==
    \E jpaths \in JPathConfigs :
        /\ query = NoQuery
        /\ history.configured = <<>>
        /\ jpaths # <<>>
        /\ loader' = [loader EXCEPT !.jpaths = resolve_jpaths(jpaths)]
        /\ history' = [history EXCEPT !.configured = jpaths]
        /\ UNCHANGED <<AnalysisFrame, query, file_system, workspace_index, heap>>

\* The import and what its resolution gave.
Resolved_importee(op, importer, importee, path, r) ==
    [op |-> op, importer |-> importer, importee |-> importee, path |-> path,
     result |-> r.result, raised |-> r.raised, trees_before |-> loader.trees]

\* loader.resolve_importee(importee)
ResolveImportee ==
    \E importer \in Importers, importee \in Importees :
        /\ query = NoQuery
        /\ query' = Resolved_importee("resolve_importee", importer, importee,
                                       resolve_importee(importer, importee),
                                       Outcome(loader.trees, heap, 0, FALSE, 0))
        /\ UNCHANGED <<AnalysisFrame, workspace>>

\* loader.get_importee(importee)
GetImportee ==
    \E importer \in Importers, importee \in Importees :
        /\ query = NoQuery
        /\ Len(heap) < MaxObjects - 1
        /\ LET r == DocumentLoader_get_importee(importer, importee)
           IN  /\ loader' = [loader EXCEPT !.trees = r.trees]
               /\ heap' = r.heap
               /\ query' = Resolved_importee("get_importee", importer, importee,
                                              resolve_importee(importer, importee), r)
        /\ UNCHANGED <<AnalysisFrame, file_system, workspace_index, history>>

\* A file outside the workspace is removed.
Remove ==
    /\ query = NoQuery
    /\ is_file(OutsideDir \o <<"x">>)
    /\ file_system' = [file_system EXCEPT ![OutsideDir \o <<"x">>] = Absent]
    /\ UNCHANGED <<AnalysisFrame, query, loader, workspace_index, heap, history>>

NextImport == ResolveJpaths \/ ResolveImportee \/ GetImportee \/ Remove \/ Reply

SpecImport == InitImport /\ [][NextImport]_vars

\* ----------------------------------------------- WorkspaceIndex (model.py)
\* The texts of the documents of the index: `{ k: 1 }`, and
\* `(import 'a').k`, once or added to itself.
ObjText(k) == [form |-> "object", key |-> k]
AccText(k, times) == [form |-> "access", path |-> "a", field |-> k, times |-> times]
IndexUris == {<<"ws", "a">>, <<"ws", "b">>}
TextsOf(uri) ==
    {ObjText(k) : k \in Names}
    \cup (IF uri[2] = "b" THEN {AccText(k, n) : k \in Names, n \in 1..2} ELSE {})

\* DocumentIndex.add_hint: self.inlay_hints[PositionKey(hint.position)] = hint
add_hint(hints, position, label) ==
    [q \in DOMAIN hints \cup {position} |-> IF q = position THEN label ELSE hints[q]]

RECURSIVE add_hints(_, _, _)
add_hints(hints, positions, label) ==
    IF positions = <<>> THEN hints
    ELSE add_hints(add_hint(hints, Head(positions), label), Tail(positions), label)

\* A DocumentIndex object.
DocumentIndex(uri, source, hints) ==
    [uri |-> uri, source |-> source, inlay_hints |-> hints]

\* DocumentIndex.resolve_importee_path, for a path that does not start
\* with ./ or ../: under the root if that exists, else under root/vendor.
resolve_importee_path(raw_path) ==
    IF is_file(<<"ws", raw_path>>) THEN <<"ws", raw_path>>
    ELSE <<"ws", "vendor", raw_path>>

\* DocumentIndex.importee_index: the cached index of the importee, else one
\* loaded from its file (get_or_load), else None (0).  The importee is an
\* object text, whose own visit adds no hint.
importee_index(raw_path) ==
    LET path == resolve_importee_path(raw_path)
    IN  IF path \in DOMAIN workspace_index.docs
            THEN [docs |-> workspace_index.docs, heap |-> heap,
                  index |-> workspace_index.docs[path]]
        ELSE IF is_file(path)
            THEN [docs |-> Cached(workspace_index.docs, path, Len(heap) + 1),
                  heap |-> Append(heap, DocumentIndex(path, file_system[path], <<>>)),
                  index |-> Len(heap) + 1]
        ELSE [docs |-> workspace_index.docs, heap |-> heap, index |-> 0]

\* The end positions of the import paths and of the field references of an
\* access text.
PathEnds(source) == [i \in 1..source.times |-> <<"path", i>>]
RefEnds(source) == [i \in 1..source.times |-> <<"ref", i>>]

\* WorkspaceIndex.load: DocumentIndex.load visits the new document and
\* then self.docs[uri] is set.  visit_import hints the path; for a field
\* access on the import, find_self_scope gives the object of the importee
\* and, when it has the field, add_reference hints the reference in the
\* new index and the definition, with the number of references so far, in
\* the index of the importee.
WorkspaceIndex_load(uri, source) ==
    IF source.form = "object" THEN
        [docs |-> Cached(workspace_index.docs, uri, Len(heap) + 1),
         heap |-> Append(heap, DocumentIndex(uri, source, <<>>))]
    ELSE
        LET imp == importee_index(source.path)
            found == /\ imp.index # 0
                     /\ imp.heap[imp.index].source.form = "object"
                     /\ imp.heap[imp.index].source.key = source.field
            own == IF found
                   THEN add_hints(add_hints(<<>>, PathEnds(source), "file"),
                                  RefEnds(source), "reference")
                   ELSE add_hints(<<>>, PathEnds(source), "file")
            hinted == IF found
                      THEN [imp.heap EXCEPT ![imp.index].inlay_hints =
                               add_hint(@, <<"key", 1>>, <<"definition", source.times>>)]
                      ELSE imp.heap
        IN  [docs |-> Cached(imp.docs, uri, Len(hinted) + 1),
             heap |-> Append(hinted, DocumentIndex(uri, source, own))]

\* An index with nothing cached; a.jsonnet and b.jsonnet may be on disk.
InitIndex ==
    /\ doc = Parsed(Document(Num))
    /\ phase = "Parsed"
    /\ scopes = <<>>
    /\ top = 0
    /\ var = <<>>
    /\ references = <<>>
    /\ field_scope = <<>>
    /\ field_refs = <<>>
    /\ seen_in = <<>>
    /\ seen_at = <<>>
    /\ query = NoQuery
    /\ file_system \in {[u \in IndexUris |-> IF u[2] = "a" THEN t ELSE s] :
                           t \in TextsOf(<<"ws", "a">>) \cup {Absent},
                           s \in {AccText(NamePool[1], 1), Absent}}
    /\ loader = [trees |-> <<>>, workspace_path |-> <<"ws">>, jpaths |-> <<>>]
    /\ workspace_index = [docs |-> <<>>]
    /\ heap = <<>>
    /\ history = <<>>

\* The notification and the index as it was before it.
Notified(op, uri, text) ==
    [op |-> op, uri |-> uri, text |-> text,
     docs_before |-> workspace_index.docs, heap_before |-> heap]

\* did_open: ls.workspace_index.load(doc.uri, doc.text)
DidOpen ==
    \E uri \in IndexUris : \E text \in TextsOf(uri) :
        /\ query = NoQuery
        /\ uri \notin DOMAIN workspace_index.docs
        /\ Len(heap) + 2 <= MaxObjects
        /\ LET r == WorkspaceIndex_load(uri, text)
           IN  /\ workspace_index' = [workspace_index EXCEPT !.docs = r.docs]
               /\ heap' = r.heap
        /\ query' = Notified("did_open", uri, text)
        /\ UNCHANGED <<AnalysisFrame, file_system, loader, history>>

\* did_change: ls.workspace_index.load(doc.uri, doc.source), with the
\* changed text of an open document.
DidChange ==
    \E uri \in IndexUris : \E text \in TextsOf(uri) :
        /\ query = NoQuery
        /\ uri \in DOMAIN workspace_index.docs
        /\ heap[workspace_index.docs[uri]].source # text
        /\ Len(heap) + 2 <= MaxObjects + 1
        /\ LET r == WorkspaceIndex_load(uri, text)
           IN  /\ workspace_index' = [workspace_index EXCEPT !.docs = r.docs]
               /\ heap' = r.heap
        /\ query' = Notified("did_change", uri, text)
        /\ UNCHANGED <<AnalysisFrame, file_system, loader, history>>

\* The positions a request names: the end of the first field reference of
\* an access text, the key of an object text.
IndexPositions == {<<"ref", 1>>, <<"key", 1>>}

\* DocumentIndex.definition(position): ref_to_defs of the node at the
\* position; add_reference appends to it exactly when it hints the
\* reference, and the definition is the key of the importee.
DocumentIndex_definition(index, position) ==
    IF position[1] = "ref" /\ position \in DOMAIN index.inlay_hints
    THEN <<[uri |-> resolve_importee_path(index.source.path), position |-> <<"key", 1>>]>>
    ELSE <<>>

\* WorkspaceIndex.get_or_load, as the cache and the objects it leaves.
get_or_load(uri, source) ==
    IF uri \notin DOMAIN workspace_index.docs THEN WorkspaceIndex_load(uri, source)
    ELSE [docs |-> workspace_index.docs, heap |-> heap]

\* WorkspaceIndex.definitions: maybe(self.docs.get(uri)), then the
\* definition the document has for the position.
WorkspaceIndex_definitions(uri, position) ==
    IF uri \notin DOMAIN workspace_index.docs THEN <<>>
    ELSE DocumentIndex_definition(heap[workspace_index.docs[uri]], position)

\* definition: ls.workspace_index.definitions(uri, position)
DefinitionRequest ==
    \E uri \in IndexUris, position \in IndexPositions :
        /\ query = NoQuery
        /\ query' = [op |-> "definition", uri |-> uri, position |-> position,
                     locations |-> WorkspaceIndex_definitions(uri, position),
                     docs_before |-> workspace_index.docs, heap_before |-> heap]
        /\ UNCHANGED <<AnalysisFrame, workspace>>

\* inlay_hint: the text document of the uri (the text of its file, for one
\* that is not open), get_or_load, and the hints of the document.
InlayHintRequest ==
    \E uri \in IndexUris :
        /\ query = NoQuery
        /\ is_file(uri)
        /\ Len(heap) + 2 <= MaxObjects + 1
        /\ LET r == get_or_load(uri, file_system[uri])
           IN  /\ workspace_index' = [workspace_index EXCEPT !.docs = r.docs]
               /\ heap' = r.heap
               /\ query' = [op |-> "inlayHint", uri |-> uri,
                            hints |-> r.heap[r.docs[uri]].inlay_hints,
                            docs_before |-> workspace_index.docs, heap_before |-> heap]
        /\ UNCHANGED <<AnalysisFrame, file_system, loader, history>>

NextIndex == DidOpen \/ DidChange \/ DefinitionRequest \/ InlayHintRequest \/ Reply

SpecIndex == InitIndex /\ [][NextIndex]_vars

\* ----------------------------------------------------- AST.from_cst (ast.py)
\* A CST node is [type, key, kids]: the node type the parser gives it, for a
\* field whether its key is an identifier or computed, and its named
\* children.  An AST node built from it is [class, at, node_type, kids]: at
\* is the path of the CST node its location is taken from.
Cst(type, key, kids) == [type |-> type, key |-> key, kids |-> kids]
Built(class, at, node_type, kids) ==
    [class |-> class, at |-> at, node_type |-> node_type, kids |-> kids]

\* What a constructor does: it returns a node, or it raises.
Returns(node) == [raised |-> FALSE, node |-> node]
Raises == [raised |-> TRUE, node |-> Built("", <<>>, "", <<>>)]

\* The node types AST.register was called for (those of the model's CSTs).
Registry == {"document", "number", "array", "object", "field", "forspec"}

\* The classes that derive from Expr, of those the constructors build.
ExprClasses == {"Document", "Num", "Array", "Object", "ObjComp", "Unknown",
                "ErrorAST", "ErrorExpr"}

RECURSIVE AST_from_cst(_, _), Expr_from_cst(_, _), Construct(_, _),
          Field_from_cst(_, _), ObjComp_from_cst(_, _)

\* Field.from_cst: the key by FieldKey.from_cst, the value by Expr.from_cst.
Field_from_cst(t, at) ==
    Built("Field", at, IF t.key = "computed" THEN "ComputedKey" ELSE "FixedKey",
          <<Expr_from_cst(t.kids[1], at \o <<1>>)>>)

\* ObjComp.from_cst: exactly one field, with a computed key, and exactly
\* one for-spec, or ValueError.
ObjComp_from_cst(t, at) ==
    LET members == [i \in DOMAIN t.kids |-> [cst |-> t.kids[i], at |-> at \o <<i>>]]
        fields == SelectSeq(members, LAMBDA m : m.cst.type = "field")
        for_specs == SelectSeq(members, LAMBDA m : m.cst.type = "forspec")
    IN  IF Len(fields) # 1 \/ fields[1].cst.key # "computed" THEN Raises
        ELSE IF Len(for_specs) # 1 THEN Raises
        ELSE Returns(Built("ObjComp", at, "",
                           <<Field_from_cst(fields[1].cst, fields[1].at),
                             Built("ForSpec", for_specs[1].at, "",
                                   <<Expr_from_cst(for_specs[1].cst.kids[1],
                                                   for_specs[1].at \o <<1>>)>>)>>))

\* cst_parser(uri, node) for the parser the registry has for the type of the
\* node, Unknown.from_cst when it has none.
Construct(t, at) ==
    CASE t.type = "document" ->
            IF t.kids = <<>> THEN Raises
            ELSE Returns(Built("Document", at, "",
                               <<Expr_from_cst(t.kids[1], at \o <<1>>)>>))
      [] t.type = "number" -> Returns(Built("Num", at, "", <<>>))
      [] t.type = "array" ->
            Returns(Built("Array", at, "",
                          [i \in DOMAIN t.kids |-> Expr_from_cst(t.kids[i], at \o <<i>>)]))
      [] t.type = "object" ->
            IF \E i \in DOMAIN t.kids : t.kids[i].type = "forspec"
            THEN ObjComp_from_cst(t, at)
            ELSE Returns(Built("Object", at, "",
                               [i \in DOMAIN t.kids |-> Field_from_cst(t.kids[i], at \o <<i>>)]))
      [] t.type = "field" -> Returns(Field_from_cst(t, at))
      [] t.type = "forspec" ->
            Returns(Built("ForSpec", at, "", <<Expr_from_cst(t.kids[1], at \o <<1>>)>>))
      [] OTHER -> Returns(Built("Unknown", at, "", <<>>))

\* (mutant) a node type the registry does not have gives an ErrorAST.
AST_from_cst_unknown_is_error(t, at) ==
    LET made == Construct(t, at)
    IN  IF made.raised \/ t.type \notin Registry THEN Built("ErrorAST", at, t.type, <<>>)
        ELSE made.node

\* AST.from_cst: what the constructor returns, and ErrorAST.from_cst(uri,
\* node) when it raises.
AST_from_cst(t, at) ==
    LET made == Construct(t, at)
    IN  IF made.raised THEN Built("ErrorAST", at, t.type, <<>>) ELSE made.node

\* Expr.from_cst: the node, or an ErrorExpr in its place if it is no Expr.
Expr_from_cst(t, at) ==
    LET made == AST_from_cst(t, at)
    IN  IF made.class \in ExprClasses THEN made ELSE Built("ErrorExpr", at, t.type, <<>>)

\* The CSTs converted: a document that is empty, or whose body is a number,
\* a node of a type without a parser, an array of such, or an object of up
\* to MaxMembers fields and for-specs.
CstAtoms == {Cst("number", "", <<>>), Cst("weird", "", <<>>)}
CstMembers ==
    {Cst("field", k, <<v>>) : k \in {"id", "computed"}, v \in CstAtoms}
    \cup {Cst("forspec", "", <<v>>) : v \in CstAtoms}
CstObjects ==
    {Cst("object", "", ms) : ms \in UNION {[1..n -> CstMembers] : n \in 0..MaxMembers}}
CstArrays ==
    LET elements == CstAtoms \cup {Cst("forspec", "", <<Cst("number", "", <<>>)>>),
                                  Cst("object", "", <<Cst("forspec", "", <<Cst("number", "", <<>>)>>)>>)}
    IN  {Cst("array", "", es) : es \in UNION {[1..n -> elements] : n \in 0..2}}
CstDocuments ==
    {Cst("document", "", <<>>)}
    \cup {Cst("document", "", <<body>>) : body \in CstAtoms \cup CstArrays \cup CstObjects}

\* A parse tree is at hand; nothing was built from it yet.
InitCst ==
    /\ doc = Parsed(Document(Num))
    /\ phase = "Parsed"
    /\ scopes = <<>>
    /\ top = 0
    /\ var = <<>>
    /\ references = <<>>
    /\ field_scope = <<>>
    /\ field_refs = <<>>
    /\ seen_in = <<>>
    /\ seen_at = <<>>
    /\ query = NoQuery
    /\ file_system = <<>>
    /\ loader = [trees |-> <<>>, workspace_path |-> <<>>, jpaths |-> <<>>]
    /\ workspace_index = [docs |-> <<>>]
    /\ heap = <<>>
    /\ history \in {[cst |-> t] : t \in CstDocuments}

\* AST.from_cst(uri, parse_jsonnet(source))
FromCst ==
    /\ query = NoQuery
    /\ query' = [op |-> "from_cst", tree |-> AST_from_cst(history.cst, <<>>)]
    /\ UNCHANGED <<AnalysisFrame, workspace>>

NextCst == FromCst \/ Reply

SpecCst == InitCst /\ [][NextCst]_vars

\* ------------------------------------------------- the server (server.py)
\* The language server: ls.workspace.folders, and ls.workspace_index once
\* set_workspace_root has made one (made).  The history records the
\* parameters of initialize, the first document opened and every root that
\* was set.
NoPath == <<>>
ServerUris == {<<"ws", "a">>, <<"ws", "b">>, <<"other", "c">>}
RootChoices == {<<"ws">>}

\* JouleLanguageServer.set_workspace_root
set_workspace_root(ls, root_uri) ==
    [ls EXCEPT !.folders = Append(@, root_uri),
               !.index = [made |-> TRUE, root_uri |-> root_uri, docs |-> <<>>]]

\* The server as the variables hold it, and back.
Server == [folders |-> history.folders, index |-> workspace_index]

InitServer ==
    /\ doc = Parsed(Document(Num))
    /\ phase = "Parsed"
    /\ scopes = <<>>
    /\ top = 0
    /\ var = <<>>
    /\ references = <<>>
    /\ field_scope = <<>>
    /\ field_refs = <<>>
    /\ seen_in = <<>>
    /\ seen_at = <<>>
    /\ query = NoQuery
    /\ file_system = <<>>
    /\ loader = [trees |-> <<>>, workspace_path |-> <<>>, jpaths |-> <<>>]
    /\ workspace_index = [made |-> FALSE, root_uri |-> NoPath, docs |-> <<>>]
    /\ heap = <<>>
    /\ history = [folders |-> <<>>, initialized |-> FALSE,
                  params |-> [root_path |-> NoPath, root_uri |-> NoPath],
                  first_opened |-> NoPath, open |-> {}, roots |-> <<>>]

\* initialize: the root is set when the client gives both rootPath and
\* rootUri (which name the same directory).
initialize ==
    \E root_path \in RootChoices \cup {NoPath}, root_uri \in RootChoices \cup {NoPath} :
        /\ ~history.initialized
        /\ LET ls == IF root_path # NoPath /\ root_uri # NoPath
                     THEN set_workspace_root(Server, root_uri)
                     ELSE Server
           IN  /\ workspace_index' = ls.index
               /\ history' = [history EXCEPT
                                 !.initialized = TRUE,
                                 !.params = [root_path |-> root_path, root_uri |-> root_uri],
                                 !.folders = ls.folders,
                                 !.roots = IF ls.index # workspace_index
                                           THEN Append(@, ls.index.root_uri) ELSE @]
        /\ UNCHANGED <<AnalysisFrame, query, file_system, loader, heap>>

\* did_open: without a folder the parent of the document becomes the
\* root; then ls.workspace_index.load(doc.uri, doc.text).
did_open ==
    \E uri \in ServerUris, text \in GoodSources :
        /\ history.initialized
        /\ uri \notin history.open
        /\ LET ls == IF Len(history.folders) = 0
                     THEN set_workspace_root(Server, Up(uri))
                     ELSE Server
           IN  /\ workspace_index' = [ls.index EXCEPT !.docs = Cached(@, uri, text)]
               /\ history' = [history EXCEPT
                                 !.folders = ls.folders,
                                 !.open = @ \cup {uri},
                                 !.first_opened = IF @ = NoPath THEN uri ELSE @,
                                 !.roots = IF ls.index # workspace_index
                                           THEN Append(@, ls.index.root_uri) ELSE @]
        /\ UNCHANGED <<AnalysisFrame, query, file_system, loader, heap>>

\* did_change: ls.workspace_index.load(doc.uri, doc.source) for the
\* changed text of an open document.
did_change ==
    \E uri \in ServerUris, text \in GoodSources :
        /\ uri \in history.open
        /\ workspace_index.docs[uri] # text
        /\ workspace_index' = [workspace_index EXCEPT !.docs = Cached(@, uri, text)]
        /\ UNCHANGED <<AnalysisFrame, query, file_system, loader, heap, history>>

NextServer == initialize \/ did_open \/ did_change

SpecServer == InitServer /\ [][NextServer]_vars

\* ------------------------------------------------- a free-standing scope tree
\* Scope objects built by arbitrary bind and nest calls, and get asked of any
\* of them.  A binding's location is its number in the order of the calls.
ScopeNames == {"x", "y"}

InitScope ==
    /\ NoWorkspace
    /\ doc = Parsed(Document(Num))
    /\ phase = "Parsed"
    /\ scopes = <<ScopeEmpty(<<>>)>>
    /\ top = 1
    /\ var = <<>>
    /\ references = <<>>
    /\ field_scope = <<>>
    /\ field_refs = <<>>
    /\ seen_in = <<>>
    /\ seen_at = <<>>
    /\ query = NoQuery

ScopeFrame == <<doc, phase, top, var, references, field_scope, field_refs,
                seen_in, seen_at>>

\* scope.bind_var(var, to)
DoBind ==
    \E s \in DOMAIN scopes, n \in ScopeNames :
        /\ query = NoQuery
        /\ BindCount(scopes) < MaxBindings
        /\ scopes' = ScopeBind(scopes, s, n, <<BindCount(scopes) + 1>>, NoNode)
        /\ UNCHANGED <<workspace, ScopeFrame, query>>

\* scope.nest(owner)
DoNest ==
    \E s \in DOMAIN scopes :
        /\ query = NoQuery
        /\ Len(scopes) < MaxScopes
        /\ scopes' = ScopeNest(scopes, s, NoNode)
        /\ UNCHANGED <<workspace, ScopeFrame, query>>

\* scope.get(name)
DoGet ==
    \E s \in DOMAIN scopes, n \in ScopeNames :
        /\ query = NoQuery
        /\ query' = [op |-> "get", scope |-> s, name |-> n,
                     binding |-> ScopeGet(scopes, s, n)]
        /\ UNCHANGED <<workspace, ScopeFrame, scopes>>

NextScope == DoBind \/ DoNest \/ DoGet \/ Reply

SpecScope == InitScope /\ [][NextScope]_vars

\* ------------------------------------------------------------------ claims
Resolved == phase = "ScopeResolved"

\* Node q introduces a variable named n: a Local or an Object by a bind, a
\* Fn by a parameter.
Introduces(q, n) ==
    \E i \in 1..doc[q].n :
        /\ Kind(q \o <<i>>) \in {"Bind", "Param"}
        /\ Name(q \o <<i, 1>>) = n

\* Between node p and its descendant r lies a node that introduces r's name.
Shadowed(p, r) ==
    \E q \in Nodes : Below(p, q) /\ Below(q, r) /\ Introduces(q, Name(r))

\* The identifiers of the parameters of Fn f / of the locals of Object o.
ParamVars(f) == {c \o <<1>> : c \in {f \o <<i>> : i \in 1..doc[f].n} \cap NodesOfKind("Param")}
LocalVars(o) == {c \o <<1>> : c \in {o \o <<i>> : i \in 1..doc[o].n} \cap NodesOfKind("Bind")}
\* Of a set of sibling identifiers, the one of name n that comes last.
LastNamed(vs, n) ==
    LET same == {v \in vs : Name(v) = n}
    IN  CHOOSE v \in same : \A w \in same : w[Len(w) - 1] <= v[Len(v) - 1]

\* C1: after resolve, in every Fn, a VarRef in a parameter's default or in
\* the body that has the name of a parameter, and is not shadowed by a nearer
\* scope, is linked to that parameter's Var, whatever the order of the
\* parameters; in function(p1 = p2, p2, p3 = p1) p1 + p2 + p3 the p2 of p1's
\* default and the p2 of the body are linked to the same parameter p2.
C1_ParamsMutuallyVisible ==
    Resolved =>
        /\ \A f \in NodesOfKind("Fn") : \A r \in NodesOfKind("VarRef") :
              (/\ Below(f, r)
               /\ \E v \in ParamVars(f) : Name(v) = Name(r)
               /\ ~Shadowed(f, r))
              => var[r] = LastNamed(ParamVars(f), Name(r))
        /\ doc = Parsed(FnExample) =>
              /\ var[<<1, 1, 2>>] = <<1, 2, 1>>
              /\ var[<<1, 4, 1, 2>>] = <<1, 2, 1>>
              /\ references[<<1, 2, 1>>] = << <<1, 1, 2>>, <<1, 4, 1, 2>> >>

\* C1 witness: a resolved function in which the default of a parameter
\* refers to a parameter that comes after it, and is linked to it.
C1_Witness ==
    /\ Resolved
    /\ \E f \in NodesOfKind("Fn") : \E i \in 1..doc[f].n, j \in 1..doc[f].n :
          /\ i < j
          /\ Kind(f \o <<i>>) = "Param" /\ Kind(f \o <<j>>) = "Param"
          /\ doc[f \o <<i>>].n = 2
          /\ Kind(f \o <<i, 2>>) = "VarRef"
          /\ var[f \o <<i, 2>>] = f \o <<j, 1>>

\* The VarRefs inside the computed keys of Object o, and those inside its
\* assertions and field values.
KeyRefs(o) ==
    {r \in NodesOfKind("VarRef") :
        \E i \in 1..doc[o].n :
            /\ Kind(o \o <<i>>) = "Field"
            /\ Kind(o \o <<i, 1>>) = "ComputedKey"
            /\ Below(o \o <<i, 1>>, r)}
BodyRefs(o) ==
    {r \in NodesOfKind("VarRef") :
        \E i \in 1..doc[o].n :
            \/ Kind(o \o <<i>>) = "Assert" /\ Below(o \o <<i>>, r)
            \/ Kind(o \o <<i>>) = "Field" /\ IsPrefix(o \o <<i, 2>>, r)}

\* C2: after resolve, for every Object, a VarRef inside a computed key is
\* never linked to a Var bound by a local of that object, while a VarRef of
\* the name of such a local inside the assertions and the field values (not
\* bound again by a scope in between) is linked to it.
C2_ObjectLocalsNotInKeys ==
    Resolved =>
        \A o \in NodesOfKind("Object") :
            /\ \A r \in KeyRefs(o) : var[r] \notin LocalVars(o)
            /\ \A r \in BodyRefs(o) :
                  ((\E v \in LocalVars(o) : Name(v) = Name(r)) /\ ~Shadowed(o, r))
                  => var[r] = LastNamed(LocalVars(o), Name(r))

\* C2 witness: a resolved object with a local whose name is used in a
\* computed key, where it is linked to an outer variable, and in a field
\* value, where it is linked to the local.
C2_Witness ==
    /\ Resolved
    /\ \E o \in NodesOfKind("Object") : \E k \in KeyRefs(o), b \in BodyRefs(o) :
          /\ Name(k) = Name(b)
          /\ var[b] \in LocalVars(o)
          /\ var[k] # NoNode

\* The parent chain of scope s, nearest first.
RECURSIVE Chain(_, _)
Chain(ss, s) == IF s = 0 THEN <<>> ELSE <<s>> \o Chain(ss, ss[s].parent)

BindingsOf(ss, s) == {ss[s].bindings[i] : i \in DOMAIN ss[s].bindings}
Named(ss, s, name) == {b \in BindingsOf(ss, s) : b.name = name}

\* What a lookup of `name` from scope s is to give: of the nearest scope of
\* the chain that holds a binding of the name, the binding made last; and
\* NoBinding when no scope of the chain holds one.
Nearest(ss, s, name) ==
    LET holders == SelectSeq(Chain(ss, s), LAMBDA c : Named(ss, c, name) # {})
    IN  IF holders = <<>> THEN NoBinding
        ELSE CHOOSE b \in Named(ss, holders[1], name) :
                \A o \in Named(ss, holders[1], name) : o.order <= b.order

\* C3: after any sequence of bind and nest calls, get(name) on a scope gives
\* the most recently made binding of that name of the nearest scope on the
\* parent chain holding one, and no binding when none holds one; so a binding
\* of an outer scope is never the answer while a nearer scope binds the name.
C3_GetNearest ==
    query.op = "get" =>
        query.binding = Nearest(scopes, query.scope, query.name)

\* C3 witness: get answered with a binding that is the later of two bindings
\* of its scope while a parent scope binds the same name too.
C3_Witness ==
    /\ query.op = "get"
    /\ query.binding # NoBinding
    /\ Cardinality(Named(scopes, query.binding.scope, query.name)) >= 2
    /\ query.binding.scope = query.scope
    /\ scopes[query.scope].parent # 0
    /\ Named(scopes, scopes[query.scope].parent, query.name) # {}

\* What a lookup of `name` from scope s gave at the moment `at` bindings
\* had been made: Nearest over the bindings made until then.
NearestBefore(ss, s, name, at) ==
    LET early(c) == {b \in Named(ss, c, name) : b.order <= at}
        holders == SelectSeq(Chain(ss, s), LAMBDA c : early(c) # {})
    IN  IF holders = <<>> THEN NoBinding
        ELSE CHOOSE b \in early(holders[1]) :
                \A o \in early(holders[1]) : o.order <= b.order

\* The number of times r occurs in the sequence rs.
Occurrences(rs, r) == Cardinality({i \in DOMAIN rs : rs[i] = r})

\* The links between a Var and its references are mutual, and a VarRef is in
\* at most one list, at most once.
LinksMutual ==
    /\ \A v \in NodesOfKind("Var") : \A i \in DOMAIN references[v] :
          LET r == references[v][i]
          IN  /\ Kind(r) = "VarRef"
              /\ var[r] = v
              /\ Name(r) = Name(v)
    /\ \A r \in NodesOfKind("VarRef") :
          /\ \A v \in NodesOfKind("Var") :
                Occurrences(references[v], r) = (IF var[r] = v THEN 1 ELSE 0)

\* C4 as stated: after resolve, for every Var v and every r of v.references,
\* r.var is v, the names are equal, and looking r.name up through the scope
\* chain in effect at r gives the binding of v.
C4_Original ==
    Resolved =>
        /\ LinksMutual
        /\ \A v \in NodesOfKind("Var") : \A i \in DOMAIN references[v] :
              LET r == references[v][i]
              IN  ScopeGet(scopes, seen_in[r], Name(r)).location = v

\* C4 (amended): after resolve, for every Var v and every r of v.references,
\* r.var is v, the names are equal, each VarRef is in at most one references
\* list and at most once, and the lookup of r.name through the scope chain in
\* effect at r, over the bindings made until r was visited, gives the
\* binding of v.
C4_RoundTrip ==
    Resolved =>
        /\ LinksMutual
        /\ \A v \in NodesOfKind("Var") : \A i \in DOMAIN references[v] :
              LET r == references[v][i]
              IN  NearestBefore(scopes, seen_in[r], Name(r), seen_at[r]).location = v

\* C4 witness: a resolved document with a Var one of whose references was
\* visited in a scope that binds the name again later on.
C4_Witness ==
    /\ Resolved
    /\ \E v \in NodesOfKind("Var") :
          /\ references[v] # <<>>
          /\ \E i \in DOMAIN references[v] :
                ScopeGet(scopes, seen_in[references[v][i]], Name(v)).location # v

\* C5 as stated: after resolve, an unlinked VarRef has a name that no scope
\* of the chain in effect at it binds.
C5_Original ==
    Resolved =>
        \A r \in NodesOfKind("VarRef") :
            var[r] = NoNode =>
                \A i \in DOMAIN Chain(scopes, seen_in[r]) :
                    Named(scopes, Chain(scopes, seen_in[r])[i], Name(r)) = {}

\* C5 (amended): after resolve, an unlinked VarRef has a name that no scope
\* of the chain in effect at it bound when the reference was visited; a
\* linked VarRef is linked to a Var of its name.
C5_NoDangling ==
    Resolved =>
        \A r \in NodesOfKind("VarRef") :
            /\ seen_in[r] # 0
            /\ var[r] = NoNode =>
                  \A i \in DOMAIN Chain(scopes, seen_in[r]) :
                      \A b \in Named(scopes, Chain(scopes, seen_in[r])[i], Name(r)) :
                          b.order > seen_at[r]
            /\ var[r] # NoNode => Kind(var[r]) = "Var" /\ Name(var[r]) = Name(r)

\* C5 witness: a resolved document with an unlinked VarRef whose name a
\* scope of its chain binds, by a binding made after the visit.
C5_Witness ==
    /\ Resolved
    /\ \E r \in NodesOfKind("VarRef") :
          /\ var[r] = NoNode
          /\ seen_in[r] # 0
          /\ \E i \in DOMAIN Chain(scopes, seen_in[r]) :
                Named(scopes, Chain(scopes, seen_in[r])[i], Name(r)) # {}

\* The fields of Object o that have a fixed key, in the order of the source.
FixedFields(o) ==
    SelectSeq(KidsOfKind(o, "Field"), LAMBDA f : Kind(f \o <<1>>) = "FixedKey")

\* C6 as stated: after resolve, for every field f with fixed key k of an
\* Object O, the lookup of k.name in O's field scope gives a binding whose
\* target is f and whose location is k.
C6_Original ==
    Resolved =>
        \A o \in NodesOfKind("Object") : \A i \in DOMAIN FixedFields(o) :
            LET f == FixedFields(o)[i]
                b == ScopeGet(scopes, field_scope[o], Name(f \o <<1>>))
            IN  b.bound_to = f /\ b.location = f \o <<1>>

\* C6 (amended): after resolve, for every field f with fixed key k of an
\* Object O, O's field scope holds exactly one binding of location k, its
\* name is k.name and its target f; the lookup of k.name in O's field scope
\* gives the binding of the last field of O with a key of that name, which
\* is the one of f when no later field of O has a key of the same name.
C6_FieldRoundTrip ==
    Resolved =>
        \A o \in NodesOfKind("Object") :
            /\ field_scope[o] # 0
            /\ scopes[field_scope[o]].parent = 0
            /\ Len(scopes[field_scope[o]].bindings) = Len(FixedFields(o))
            /\ \A i \in DOMAIN FixedFields(o) :
                  LET f == FixedFields(o)[i]
                      k == f \o <<1>>
                      later == {j \in DOMAIN FixedFields(o) :
                                   j > i /\ Name(FixedFields(o)[j] \o <<1>>) = Name(k)}
                      b == ScopeGet(scopes, field_scope[o], Name(k))
                  IN  /\ \E c \in BindingsOf(scopes, field_scope[o]) :
                            c.location = k /\ c.name = Name(k) /\ c.bound_to = f
                      /\ later = {} => (b.bound_to = f /\ b.location = k)
                      /\ later # {} => b.bound_to \in {FixedFields(o)[j] : j \in later}

\* C6 witness: a resolved object with two fields under one key name, the
\* lookup giving the second, and a nested object with a field of that name
\* in a scope of its own.
C6_Witness ==
    /\ Resolved
    /\ \E o \in NodesOfKind("Object") : \E i, j \in DOMAIN FixedFields(o) :
          /\ i < j
          /\ Name(FixedFields(o)[i] \o <<1>>) = Name(FixedFields(o)[j] \o <<1>>)
          /\ ScopeGet(scopes, field_scope[o], Name(FixedFields(o)[i] \o <<1>>)).bound_to
                = FixedFields(o)[j]
          /\ \E n \in NodesOfKind("Object") :
                Below(o, n) /\ field_scope[n] # field_scope[o]

\* Position pos lies in the range of node p, both ends included.
Covers(p, pos) == doc[p].range.start <= pos /\ pos <= doc[p].range.end

\* C7: node_at(p) gives a node whose range contains p and none of whose
\* children has a range containing p, when p lies in the range of the
\* document; and None when it lies outside.
C7_NodeAtMinimal ==
    query.op = "node_at" =>
        IF Covers(<<>>, query.pos)
        THEN /\ query.node \in Nodes
             /\ Covers(query.node, query.pos)
             /\ \A i \in 1..doc[query.node].n : ~Covers(query.node \o <<i>>, query.pos)
        ELSE query.node = NoNode

\* C7 witness: a position inside the document answered by a node at least
\* two levels below the root that has a sibling.
C7_Witness ==
    /\ query.op = "node_at"
    /\ query.node \in Nodes
    /\ Len(query.node) >= 2
    /\ doc[Up(query.node)].n >= 2
    /\ Covers(<<>>, query.pos)

\* The key of name n of Object o that a lookup in o's field scope gives: the
\* one of the last field of that name, if any.
KeyOf(o, n) ==
    LET fs == SelectSeq(FixedFields(o), LAMBDA f : Name(f \o <<1>>) = n)
    IN  IF fs = <<>> THEN <<>> ELSE << fs[Len(fs)] \o <<1>> >>

\* The value of the bind that the VarRef r is linked to.
ValueOf(r) == Up(var[r]) \o <<2>>

\* The keys of name n of an operand: those of the object, or of the object a
\* variable is bound to; none for a variable that is bound nowhere.
OperandKeys(e, n) ==
    IF Kind(e) = "Object" THEN KeyOf(e, n)
    ELSE IF Kind(e) = "VarRef" /\ var[e] # NoNode /\ Kind(ValueOf(e)) = "Object"
    THEN KeyOf(ValueOf(e), n)
    ELSE <<>>
IsOperand(e) == Kind(e) \in {"Object", "VarRef"}

\* The query asks for the definition of the field F of an access (E).F.
AtFieldRef ==
    /\ query.op = "definition"
    /\ query.node \in Nodes
    /\ Kind(query.node) = "FieldRef"
AccessedObj == Up(query.node) \o <<1>>
IsPlus(p) == Kind(p) = "Binary" /\ Name(p) = "+"

\* C8: for a composition lhs + rhs with field scopes L of lhs and R of rhs,
\* find_field_scope yields R when L is empty, L when R is empty, and else
\* one composed scope per pair of L and R, in which a lookup asks the scope
\* of R first and then the one of L; so the definition of .F on the sum of
\* two objects is the key of the right one when it has F, else the left one's.
C8_Composition ==
    Resolved =>
        /\ \A p \in NodesOfKind("Binary") :
              LET l == find_field_scope(p \o <<1>>, MaxDepth)
                  r == find_field_scope(p \o <<2>>, MaxDepth)
                  c == find_field_scope(p, MaxDepth)
              IN  (IsPlus(p) /\ ~l.err /\ ~r.err) =>
                    /\ ~c.err
                    /\ l.out = <<>> => c.out = r.out
                    /\ r.out = <<>> => c.out = l.out
                    /\ (l.out # <<>> /\ r.out # <<>>) =>
                          /\ Len(c.out) = Len(l.out) * Len(r.out)
                          /\ \A i \in DOMAIN l.out : \A j \in DOMAIN r.out :
                             \A n \in Names :
                                FieldGet(c.out[(i - 1) * Len(r.out) + j], n)
                                  = IF FieldGet(r.out[j], n) # NoBinding
                                    THEN FieldGet(r.out[j], n)
                                    ELSE FieldGet(l.out[i], n)
        /\ (/\ AtFieldRef
            /\ IsPlus(AccessedObj)
            /\ IsOperand(AccessedObj \o <<1>>)
            /\ IsOperand(AccessedObj \o <<2>>)) =>
              /\ ~query.raised
              /\ query.locations =
                    IF OperandKeys(AccessedObj \o <<2>>, Name(query.node)) # <<>>
                    THEN OperandKeys(AccessedObj \o <<2>>, Name(query.node))
                    ELSE OperandKeys(AccessedObj \o <<1>>, Name(query.node))

\* C8 witness: the definition of a field on a sum both sides of which have
\* two scopes, found in each of the four composed scopes, in the right side
\* for some and in the left side for others.
C8_Witness ==
    /\ AtFieldRef
    /\ IsPlus(AccessedObj)
    /\ Len(find_field_scope(AccessedObj \o <<1>>, MaxDepth).out) = 2
    /\ Len(find_field_scope(AccessedObj \o <<2>>, MaxDepth).out) = 2
    /\ Len(query.locations) = 4
    /\ \E i, j \in 1..4 :
          /\ Below(AccessedObj \o <<1>>, query.locations[i])
          /\ Below(AccessedObj \o <<2>>, query.locations[j])

\* The query asks for the definition of .f in the document
\* local o = { f: 1 }; (o + { f: 2 }).f
AtVarObjExample == AtFieldRef /\ doc = Parsed(VarObjExample)

\* C9 as stated: the definition of .f in local o = { f: 1 }; (o + { f: 2 }).f
\* gives both keys f, the one of the object o is bound to and the one of
\* the literal on the right.
C9_Original ==
    AtVarObjExample =>
        \E i, j \in DOMAIN query.locations :
            /\ query.locations[i] = <<1, 1, 2, 1, 1>>
            /\ query.locations[j] = <<1, 2, 1, 2, 1, 1>>

\* C9 (amended): the definition of .f in local o = { f: 1 }; (o + { f: 2 }).f
\* gives one location, the key f of the literal on the right; the key of
\* the object o is bound to is given only for a field the right side lacks.
C9_RightKeyOnly ==
    /\ AtVarObjExample =>
          /\ ~query.raised
          /\ query.locations = << <<1, 2, 1, 2, 1, 1>> >>
    /\ (/\ AtFieldRef
        /\ IsPlus(AccessedObj)
        /\ Kind(AccessedObj \o <<1>>) = "VarRef"
        /\ var[AccessedObj \o <<1>>] # NoNode
        /\ Kind(AccessedObj \o <<2>>) = "Object") =>
          LET right == KeyOf(AccessedObj \o <<2>>, Name(query.node))
              left == KeyOf(ValueOf(AccessedObj \o <<1>>), Name(query.node))
          IN  query.locations = IF right # <<>> THEN right ELSE left

\* C9 witness: the definition query on .f of that document, answered with
\* the key on the right.
C9_Witness ==
    /\ AtVarObjExample
    /\ Kind(<<1, 2, 1, 2, 1, 1>>) = "FixedKey"
    /\ Kind(<<1, 1, 2, 1, 1>>) = "FixedKey"
    /\ var[<<1, 2, 1, 1>>] = <<1, 1, 1>>
    /\ query.locations = << <<1, 2, 1, 2, 1, 1>> >>

\* The If that the accessed expression is, or that the variable it names is
\* bound to; NoNode otherwise.
AccessedIf ==
    IF Kind(AccessedObj) = "If" THEN AccessedObj
    ELSE IF /\ Kind(AccessedObj) = "VarRef"
            /\ var[AccessedObj] # NoNode
            /\ Kind(ValueOf(AccessedObj)) = "If"
    THEN ValueOf(AccessedObj)
    ELSE NoNode

\* C10: for `if c then A else B`, or a variable bound to it, find_field_scope
\* yields the field scopes of A and then those of B, and only those of A
\* without an else; a field access on it resolves to the key of every branch
\* that has the field.
C10_IfBranches ==
    Resolved =>
        /\ \A p \in NodesOfKind("If") :
              LET a == find_field_scope(p \o <<2>>, MaxDepth)
                  b == IF doc[p].n = 3 THEN find_field_scope(p \o <<3>>, MaxDepth)
                       ELSE Yield(<<>>)
                  c == find_field_scope(p, MaxDepth)
              IN  (~a.err /\ ~b.err) => (~c.err /\ c.out = a.out \o b.out)
        /\ \A r \in NodesOfKind("VarRef") :
              (var[r] # NoNode /\ Kind(ValueOf(r)) = "If") =>
                  find_field_scope(r, MaxDepth) = find_field_scope(ValueOf(r), MaxDepth)
        /\ (AtFieldRef /\ AccessedIf # NoNode) =>
              /\ ~query.raised
              /\ query.locations =
                    OperandKeys(AccessedIf \o <<2>>, Name(query.node))
                    \o (IF doc[AccessedIf].n = 3
                        THEN OperandKeys(AccessedIf \o <<3>>, Name(query.node))
                        ELSE <<>>)

\* C10 witness: the definition of a field on a variable bound to an If with
\* an else, answered with the key of the consequence and then the one of the
\* alternative.
C10_Witness ==
    /\ AtFieldRef
    /\ Kind(AccessedObj) = "VarRef"
    /\ AccessedIf # NoNode
    /\ doc[AccessedIf].n = 3
    /\ Len(query.locations) = 2
    /\ Below(AccessedIf \o <<2>>, query.locations[1])
    /\ Below(AccessedIf \o <<3>>, query.locations[2])

\* The Objects that enclose node p, outermost first (by position in the
\* text, whatever parent links the nodes carry).
Enclosing(p) ==
    SelectSeq([i \in 1..Len(p) |-> SubSeq(p, 1, i - 1)], LAMBDA q : Kind(q) = "Object")

\* The expression that stands for the accessed object: the expression
\* itself, or the value a variable it names is bound to.
AccessedValue ==
    IF Kind(AccessedObj) = "VarRef" /\ var[AccessedObj] # NoNode
    THEN ValueOf(AccessedObj) ELSE AccessedObj

\* C11 as stated: a field access on `$` is resolved in the field scope of the
\* outermost Object that encloses the `$`, and one on `self` in the field
\* scope of the nearest Object that encloses the `self`; in
\* { f: 1, g: { h: $.i, i: 2 }, i: 3 } the access $.i gives the outer key i.
C11_Original ==
    (AtFieldRef /\ Kind(AccessedValue) \in {"Self", "Dollar"}) =>
        LET objs == Enclosing(AccessedValue)
            o == IF Kind(AccessedValue) = "Dollar" THEN objs[1] ELSE objs[Len(objs)]
        IN  /\ ~query.raised
            /\ query.locations = KeyOf(o, Name(query.node))

\* What the code gives: for a `$` or a `self` inside a member of an Object,
\* no field scope at all, so no definition.
C11_NoScopeFound ==
    (AtFieldRef /\ Kind(AccessedValue) \in {"Self", "Dollar"}) =>
        /\ ~query.raised
        /\ query.locations = <<>>

\* C11 witness: the definition of .I asked on `$` inside a nested object
\* whose outermost object has a field I, answered with nothing.
C11_Witness ==
    /\ AtFieldRef
    /\ Kind(AccessedObj) = "Dollar"
    /\ Len(Enclosing(AccessedObj)) = 2
    /\ KeyOf(Enclosing(AccessedObj)[1], Name(query.node)) # <<>>
    /\ query.locations = <<>>

\* The query asks for the definition of the name X of an argument X = v.
AtParamRef ==
    /\ query.op = "definition"
    /\ query.node \in Nodes
    /\ Kind(query.node) = "ParamRef"
Callee == Up(Up(query.node)) \o <<1>>

\* The objects an expression can be: an object, what a variable is bound
\* to, each branch of an if.
RECURSIVE ObjectsOf(_)
ObjectsOf(e) ==
    IF Kind(e) = "Object" THEN <<e>>
    ELSE IF Kind(e) = "VarRef" THEN
        (IF var[e] # NoNode /\ Kind(Up(var[e])) = "Bind" THEN ObjectsOf(ValueOf(e))
         ELSE <<>>)
    ELSE IF Kind(e) = "If" THEN
        ObjectsOf(e \o <<2>>) \o (IF doc[e].n = 3 THEN ObjectsOf(e \o <<3>>) ELSE <<>>)
    ELSE <<>>

\* The values of the field n of the objects os that are functions.
RECURSIVE FieldFns(_, _)
FieldFns(os, n) ==
    IF os = <<>> THEN <<>>
    ELSE LET k == KeyOf(Head(os), n)
             v == Up(k[1]) \o <<2>>
         IN  (IF k # <<>> /\ Kind(v) = "Fn" THEN <<v>> ELSE <<>>)
             \o FieldFns(Tail(os), n)

\* The functions a callee expression can resolve to: a function literal, a
\* variable bound to one, a field whose value is one, each branch of an if.
RECURSIVE FnsOf(_)
FnsOf(e) ==
    IF Kind(e) = "Fn" THEN <<e>>
    ELSE IF Kind(e) = "VarRef" THEN
        (IF var[e] # NoNode /\ Kind(Up(var[e])) = "Bind" THEN FnsOf(ValueOf(e))
         ELSE <<>>)
    ELSE IF Kind(e) = "If" THEN
        FnsOf(e \o <<2>>) \o (IF doc[e].n = 3 THEN FnsOf(e \o <<3>>) ELSE <<>>)
    ELSE IF Kind(e) = "FieldAccess" THEN
        FieldFns(ObjectsOf(e \o <<1>>), Name(e \o <<2>>))
    ELSE <<>>

\* The identifiers of the parameters named n of the functions fns.
RECURSIVE ParamsNamed(_, _)
ParamsNamed(fns, n) ==
    IF fns = <<>> THEN <<>>
    ELSE SelectSeq([i \in 1..(doc[Head(fns)].n - 1) |-> Head(fns) \o <<i, 1>>],
                   LAMBDA id : Name(id) = n)
         \o ParamsNamed(Tail(fns), n)

\* C12 as stated: the definition of a named argument is, for every function
\* the callee can resolve to, the location of its parameter of the
\* argument's name; functions without such a parameter give nothing, and a
\* callee that resolves to no function gives an empty result.
C12_Original ==
    AtParamRef =>
        /\ ~query.raised
        /\ query.locations = ParamsNamed(FnsOf(Callee), Name(query.node))

\* C12 witness: the definition of an argument asked on a call of a variable
\* that is bound to a number; the request is not answered (RecursionError).
C12_Witness ==
    /\ AtParamRef
    /\ Kind(Callee) = "VarRef"
    /\ var[Callee] # NoNode
    /\ Kind(ValueOf(Callee)) = "Num"
    /\ query.raised

\* The request is a references query on the identifier of a fixed key.
AtKey ==
    /\ query.op = "references"
    /\ query.node # NoNode
    /\ Kind(query.node) = "IdField"

\* The field references of the workspace whose definition query answers
\* with the location of the key.
ResolvingTo(key) ==
    {r \in NodesOfKind("FieldRef") :
        LET d == find_definition(r)
        IN  \E i \in DOMAIN d.out : d.out[i] = key}

\* C13: a references query on the key of a field returns every field access
\* of every document of the workspace (documents that reach the key's
\* document through import included) whose definition resolves to that
\* key, and no access whose definition resolves only to other keys.
C13_Original ==
    AtKey =>
        /\ ~query.raised
        /\ Elems(query.locations) = ResolvingTo(Up(query.node))

\* The same, for the queries that return: what the query gives is exact
\* whenever no access of the name makes the search raise.
C13_ExactWhenAnswered ==
    (AtKey /\ ~query.raised) =>
        Elems(query.locations) = ResolvingTo(Up(query.node))

\* A references query on a key of p while q accesses a field of that name
\* of a number: the search raises.
C13_Witness ==
    /\ AtKey
    /\ IsPrefix(<<1>>, query.node)
    /\ query.raised
    /\ \E r \in NodesOfKind("FieldRef") :
            /\ IsPrefix(<<2>>, r)
            /\ Name(r) = Name(query.node)
            /\ Kind(Up(r) \o <<1>>) = "VarRef"

\* The request is a references query on a usage of a bound variable.
AtUsage ==
    /\ query.op = "references"
    /\ query.node # NoNode
    /\ Kind(query.node) = "VarRef"
    /\ var[query.node] # NoNode

\* C14: a references query at a VarRef gives what it gives at the Var the
\* VarRef is bound to: the locations of all elements of that Var's
\* references list.
C14_Original ==
    AtUsage =>
        /\ ~query.raised
        /\ query.locations = references[var[query.node]]

\* At the Var itself the query gives the Var's references list.
C14_AtBinding ==
    (query.op = "references" /\ query.node # NoNode /\ Kind(query.node) = "Var") =>
        /\ ~query.raised
        /\ query.locations = references[query.node]

\* A references query at one of two usages of a variable is answered with
\* nothing.
C14_Witness ==
    /\ AtUsage
    /\ Len(references[var[query.node]]) >= 2
    /\ query.none

\* The variable a rename request points at: the Var, or the Var a VarRef
\* is linked to.
Renamed ==
    IF query.node = NoNode THEN NoNode
    ELSE IF Kind(query.node) = "Var" THEN query.node
    ELSE IF Kind(query.node) = "VarRef" THEN var[query.node]
    ELSE NoNode

OccurrencesOf(v) == {v} \cup Elems(references[v])

\* C15: a rename at a Var or at a VarRef linked to it returns one edit set,
\* keyed by the uri of the document, with exactly one edit per occurrence
\* (the Var and each of its references), each with the new name as its
\* text; the edits depend on the variable only, not on the occurrence the
\* position points at; at any other node the edit list is empty.
C15_RenameEdits ==
    query.op = "rename" =>
        /\ query.uri = query.tree
        /\ IF Renamed = NoNode THEN query.edits = <<>>
           ELSE /\ Len(query.edits) = Cardinality(OccurrencesOf(Renamed))
                /\ \A x \in OccurrencesOf(Renamed) :
                      Cardinality({i \in DOMAIN query.edits :
                                      query.edits[i].range = RangeOf(x)}) = 1
                /\ \A i \in DOMAIN query.edits :
                      query.edits[i].new_text = query.new_name
                /\ \A x \in OccurrencesOf(Renamed) :
                      Elems(rename_serve(query.tree, RangeOf(x).start,
                                         query.new_name).edits)
                      = Elems(query.edits)

\* A rename asked at a usage of a variable that has two usages.
C15_Witness ==
    /\ query.op = "rename"
    /\ query.node # NoNode
    /\ Kind(query.node) = "VarRef"
    /\ Renamed # NoNode
    /\ Len(references[Renamed]) >= 2
    /\ Len(query.edits) = 3

\* The cache entry of a uri is the document its last successful load made.
CacheIsLastLoad ==
    \A u \in LoaderUris :
        /\ u \in DOMAIN loader.trees <=> history.last_loaded[u] # 0
        /\ u \in DOMAIN loader.trees =>
              /\ loader.trees[u] = history.last_loaded[u]
              /\ loader.trees[u] \in DOMAIN heap
              /\ heap[loader.trees[u]].class = "Document"
              /\ heap[loader.trees[u]].uri = u
              /\ heap[loader.trees[u]].analysis_phase = "ScopeResolved"

\* The source a call works on: the one it is given, else the file's text.
SourceOf(q) ==
    IF q.source # None THEN q.source
    ELSE IF q.file \in Sources THEN q.file ELSE None

IsCall == query.op \in {"load", "get"}
WasCached == query.uri \in DOMAIN query.trees_before
Loads == query.op = "load" \/ (query.op = "get" /\ ~WasCached)

Changed == query.op = "did_change"

\* The document objects that were cached before the notification.
CachedBefore == {query.docs_before[u] : u \in DOMAIN query.docs_before}

\* didChange puts a new document, made from the changed text, in the place
\* of the one cached for the uri, and leaves that one as it was.
C17_SameUriReplaced ==
    Changed =>
        LET old == query.docs_before[query.uri]
            new == workspace_index.docs[query.uri]
        IN  /\ new \notin DOMAIN query.heap_before
            /\ heap[new].uri = query.uri
            /\ heap[new].source = query.text
            /\ heap[old] = query.heap_before[old]

\* C17: didChange for a uri replaces the cached document of that uri by a
\* newly parsed and resolved one in one step and mutates neither the
\* document cached before nor the cached documents of other uris: whoever
\* holds a document cached before the change still sees it as it was.
C17_Original ==
    Changed =>
        /\ C17_SameUriReplaced
        /\ \A o \in CachedBefore : heap[o] = query.heap_before[o]
        /\ \A u \in DOMAIN query.docs_before \ {query.uri} :
              workspace_index.docs[u] = query.docs_before[u]

\* b.jsonnet is changed to access a field of a.jsonnet twice, and the
\* cached index of a.jsonnet is no longer what it was.
C17_Witness ==
    /\ Changed
    /\ query.text.form = "access"
    /\ query.text.times = 2
    /\ \E o \in CachedBefore :
          /\ heap[o].uri # query.uri
          /\ heap[o].inlay_hints # query.heap_before[o].inlay_hints

\* The request resolves a relative import path.
AtRelative ==
    /\ query.op = "resolve_importee"
    /\ ~query.importee.absolute

\* The directories a list of configured search directories stands for, in
\* the order they are configured in: an absolute one itself, a relative one
\* the workspace directories it names.
RECURSIVE InConfiguredOrder(_)
InConfiguredOrder(jpaths) ==
    IF jpaths = <<>> THEN <<>>
    ELSE (IF Head(jpaths).absolute THEN <<Head(jpaths).parts>>
          ELSE IF loader.workspace_path = <<>> THEN <<>>
          ELSE Expanded(<<Head(jpaths)>>))
         \o InConfiguredOrder(Tail(jpaths))

\* The absolute ones first, then the relative ones, each group in the
\* order configured.
AbsoluteFirst(jpaths) ==
    InConfiguredOrder(SelectSeq(jpaths, LAMBDA j : j.absolute))
    \o InConfiguredOrder(SelectSeq(jpaths, LAMBDA j : ~j.absolute))

\* The candidates of the request for a list of search directories, with
\* the directory of the importer before and the workspace root after.
Candidates(dirs) ==
    LET all == <<Up(query.importer)>> \o dirs
               \o (IF loader.workspace_path = <<>> THEN <<>>
                   ELSE <<loader.workspace_path>>)
    IN  [i \in DOMAIN all |-> all[i] \o query.importee.parts]

\* The path is the first of the candidates that exists: it is one of them,
\* it is a file, and no candidate before its first occurrence is a file;
\* or it is None and no candidate is a file.
IsFirstExisting(path, cs) ==
    IF path = <<>> THEN \A i \in DOMAIN cs : ~is_file(cs[i])
    ELSE \E i \in DOMAIN cs :
            /\ cs[i] = path
            /\ is_file(path)
            /\ \A j \in 1..(i - 1) : ~is_file(cs[j])

\* C18 as stated: a relative import path resolves to the first existing file
\* among the path joined to the directory of the importing document, to
\* each configured search directory in configured order, and to the
\* workspace root; never to a later candidate when an earlier one exists.
C18_Original ==
    AtRelative =>
        IsFirstExisting(query.path, Candidates(InConfiguredOrder(history.configured)))

\* C18 (amended): the same, with the configured search directories in this
\* order: the absolute ones in configured order, then the directories of
\* the workspace named by the relative ones in configured order.
C18_SearchOrder ==
    AtRelative =>
        IsFirstExisting(query.path, Candidates(AbsoluteFirst(history.configured)))

\* A relative path is resolved to the file in the second configured
\* directory, an absolute one, although the file in the first, a relative
\* one, exists.
C18_Witness ==
    /\ AtRelative
    /\ Len(history.configured) = 2
    /\ ~history.configured[1].absolute
    /\ history.configured[2].absolute
    /\ query.path = history.configured[2].parts \o query.importee.parts
    /\ is_file(<<"ws">> \o history.configured[1].parts \o query.importee.parts)

\* The import of the request names no file.
NamesNoFile ==
    IF query.importee.absolute THEN ~is_file(query.importee.parts)
    ELSE \A d \in ImportDirs : ~is_file(d \o query.importee.parts)

\* C19: resolving an import whose path does not exist, relative or absolute,
\* gives no match and does not raise (the provider's side, an empty answer
\* for such an Import node, is C19_ProviderEmpty).
C19_Original ==
    (query.op \in {"resolve_importee", "get_importee"} /\ NamesNoFile) =>
        /\ ~query.raised
        /\ query.path = <<>>
        /\ query.result = 0

\* An absolute path that names no file is resolved to itself.
C19_Witness ==
    /\ query.op = "resolve_importee"
    /\ query.importee.absolute
    /\ NamesNoFile
    /\ query.path = query.importee.parts

\* A relative path that names no file resolves to None, and no import
\* that names no file and was never loaded gives a document.
C19_RelativeNoMatch ==
    (query.op \in {"resolve_importee", "get_importee"} /\ NamesNoFile) =>
        /\ ~query.raised
        /\ ~query.importee.absolute => (query.path = <<>> /\ query.result = 0)
        /\ (query.importee.absolute /\ query.importee.parts \notin DOMAIN query.trees_before)
              => query.result = 0

\* A definition request on a field of an import of a file that is not
\* there is answered with no location.
C19_ProviderEmpty ==
    (/\ query.op = "definition"
     /\ query.node # NoNode
     /\ Kind(query.node) = "FieldRef"
     /\ Kind(Up(query.node) \o <<1>>) = "Import"
     /\ load_importee(Up(query.node) \o <<1>>) = <<>>) =>
        (~query.raised /\ query.locations = <<>>)

\* The documents a document imports, and those it reaches by imports.
ImportedBy(f) ==
    {g \in NodesOfKind("Document") :
        \E i \in NodesOfKind("Import") : IsPrefix(f, i) /\ load_importee(i) = <<g>>}

RECURSIVE ReachedFrom(_, _)
ReachedFrom(fs, n) ==
    IF n = 0 THEN fs
    ELSE ReachedFrom(fs \cup UNION {ImportedBy(f) : f \in fs}, n - 1)

\* The document lies on a cycle of imports.
OnImportCycle(f) == f \in ReachedFrom(ImportedBy(f), Cardinality(NodesOfKind("Document")))

\* The request is a definition request whose resolution starts at an
\* import (of a field of it, or of a parameter of a call of it) and comes
\* to a document on a cycle of imports.
FollowsImportCycle ==
    /\ query.op = "definition"
    /\ query.node # NoNode
    /\ LET start == IF Kind(query.node) = "FieldRef" THEN Up(query.node) \o <<1>>
                     ELSE IF Kind(query.node) = "ParamRef" THEN Up(Up(query.node)) \o <<1>>
                     ELSE NoNode
       IN  /\ start # NoNode
           /\ Kind(start) = "Import"
           /\ \E f \in ReachedFrom(Elems(load_importee(start)),
                                    Cardinality(NodesOfKind("Document"))) :
                 OnImportCycle(f)

\* C20: a definition query whose resolution follows a cycle of imports
\* terminates: a document already visited is not entered again.
C20_Original == FollowsImportCycle => ~query.raised

\* A definition request on a field of `import 'q'` while q.jsonnet is
\* `import 'q'`: the recursion does not end.
C20_Witness ==
    /\ FollowsImportCycle
    /\ Kind(<<2, 1>>) = "Import"
    /\ Name(<<2, 1>>) = "q"
    /\ IsPrefix(<<3>>, query.node)
    /\ query.raised

\* The request is one a provider answers or raises from.
Served == query.op \in {"definition", "references", "documentSymbol"}

\* C21: for a scope-resolved document and any position every provider
\* returns a result, possibly empty, without raising, whatever the document
\* holds (unresolved references, string-literal field keys).
C21_Original == Served => ~query.raised

\* The document symbols raise only for a document with a string-literal key.
C21_SymbolsOfIdentifierKeys ==
    (query.op = "documentSymbol" /\ query.raised) =>
        \E k \in NodesOfKind("FixedKey") : Kind(k \o <<1>>) = "Str"

\* C21 witness: the document symbols of a document with a field whose key
\* is a string literal are asked for, and the provider raises.
C21_Witness ==
    /\ query.op = "documentSymbol"
    /\ phase = "ScopeResolved"
    /\ \E k \in NodesOfKind("FixedKey") : Kind(k \o <<1>>) = "Str"
    /\ query.raised

\* The nodes of a built tree, and the CST node each has its location from.
RECURSIVE BuiltNodes(_)
BuiltNodes(n) == {n} \cup UNION {BuiltNodes(n.kids[i]) : i \in DOMAIN n.kids}
CstOf(n) == Sub(history.cst, n.at)

\* A CST node a registered constructor raises for: a document without a
\* body, or an object with a for-spec that has not exactly one field, or a
\* field whose key is not computed, or more than one for-spec.
Malformed(c) ==
    \/ c.type = "document" /\ c.kids = <<>>
    \/ /\ c.type = "object"
       /\ \E i \in DOMAIN c.kids : c.kids[i].type = "forspec"
       /\ \/ Cardinality({i \in DOMAIN c.kids : c.kids[i].type = "field"}) # 1
          \/ Cardinality({i \in DOMAIN c.kids : c.kids[i].type = "forspec"}) # 1
          \/ \E i \in DOMAIN c.kids : c.kids[i].type = "field" /\ c.kids[i].key # "computed"

DefinitionAsked == query.op = "definition"
LoadedFor ==
    IF query.uri \in DOMAIN workspace_index.docs \/ ~is_file(query.uri)
    THEN [docs |-> workspace_index.docs, heap |-> heap]
    ELSE WorkspaceIndex_load(query.uri, file_system[query.uri])

\* C23: a request handler resolves its document through the loader and
\* loads it when it is not cached yet: a definition request for a uri that
\* was never opened is answered from a freshly loaded document, not with
\* the empty result of a cache miss.
C23_Original ==
    /\ (DefinitionAsked /\ is_file(query.uri)) =>
          /\ query.uri \in DOMAIN LoadedFor.docs
          /\ query.locations =
                DocumentIndex_definition(LoadedFor.heap[LoadedFor.docs[query.uri]],
                                         query.position)
    /\ query.op = "inlayHint" => query.uri \in DOMAIN workspace_index.docs

\* The handlers that go through get_or_load leave the document cached, and
\* a definition request for a cached document is answered from it.
C23_LoadedWhenGetOrLoad ==
    /\ query.op = "inlayHint" => query.uri \in DOMAIN workspace_index.docs
    /\ (DefinitionAsked /\ query.uri \in DOMAIN workspace_index.docs) =>
          query.locations =
              DocumentIndex_definition(heap[workspace_index.docs[query.uri]],
                                       query.position)

\* C23 witness: b.jsonnet, which accesses a field of a.jsonnet, is on disk
\* and was never opened; a definition request on its field reference is
\* answered with nothing, and b.jsonnet is still not loaded.
C23_Witness ==
    /\ DefinitionAsked
    /\ query.uri = <<"ws", "b">>
    /\ query.position = <<"ref", 1>>
    /\ is_file(query.uri)
    /\ query.uri \notin DOMAIN workspace_index.docs
    /\ query.locations = <<>>
    /\ DocumentIndex_definition(LoadedFor.heap[LoadedFor.docs[query.uri]],
                                query.position) # <<>>

\* The root the server has, once it has one.
RootIsSet == workspace_index.made

\* C24: the workspace root is the rootUri given at initialize when one is
\* given, otherwise the parent directory of the first document opened;
\* once set it is never changed by a later didOpen or didChange, and no
\* document is loaded into the workspace index before the root is set.
C24_Original ==
    /\ (RootIsSet /\ history.params.root_uri # NoPath) =>
          workspace_index.root_uri = history.params.root_uri
    /\ (RootIsSet /\ history.params.root_uri = NoPath) =>
          workspace_index.root_uri = Up(history.first_opened)
    /\ Len(history.roots) <= 1
    /\ DOMAIN workspace_index.docs # {} => RootIsSet

\* What the code does: the root is the rootUri when initialize is given
\* both rootPath and rootUri, otherwise the parent of the first document
\* opened; it is set once, before any document is loaded.
C24_RootNeedsRootPath ==
    /\ RootIsSet =>
          workspace_index.root_uri =
              IF history.params.root_uri # NoPath /\ history.params.root_path # NoPath
              THEN history.params.root_uri
              ELSE Up(history.first_opened)
    /\ Len(history.roots) <= 1
    /\ DOMAIN workspace_index.docs # {} => RootIsSet

\* C24 witness: initialize gave the rootUri ws without a rootPath, then
\* other/c.jsonnet was opened first: the root is `other`.
C24_Witness ==
    /\ history.params.root_uri = <<"ws">>
    /\ history.params.root_path = NoPath
    /\ history.first_opened = <<"other", "c">>
    /\ RootIsSet
    /\ workspace_index.root_uri = <<"other">>

\* The request is a definition request on a field reference or on the name
\* of an argument: the requests that run find_field_scope and find_fn.
Recursing ==
    /\ query.op = "definition"
    /\ query.node # NoNode
    /\ Kind(query.node) \in {"FieldRef", "ParamRef"}

\* C25: find_field_scope and find_fn terminate on every scope-resolved
\* document without imports: a variable whose value refers to the variable
\* itself, a field whose value is an access to the same field, and a leaf
\* expression such as a number, whose tails is the expression itself.
C25_Original == Recursing => ~query.raised

\* C25 witness: `local x = 1; x.a` with a definition request on a:
\* find_field_scope does not end.
C25_Witness ==
    /\ Recursing
    /\ Kind(query.node) = "FieldRef"
    /\ Kind(Up(query.node) \o <<1>>) = "VarRef"
    /\ var[Up(query.node) \o <<1>>] # NoNode
    /\ Kind(Up(var[Up(query.node) \o <<1>>]) \o <<2>>) = "Num"
    /\ query.raised

\* `local x = x; x.a`: neither does it end for a variable bound to itself.
C25_SelfBoundVariable ==
    /\ Recursing
    /\ Kind(query.node) = "FieldRef"
    /\ Kind(Up(query.node) \o <<1>>) = "VarRef"
    /\ var[Up(query.node) \o <<1>>] # NoNode
    /\ Kind(Up(var[Up(query.node) \o <<1>>]) \o <<2>>) = "VarRef"
    /\ query.raised

\* `local f = 1; f(a = 1)`: find_fn does not end for a number.
C25_CalleeIsNumber ==
    /\ Recursing
    /\ Kind(query.node) = "ParamRef"
    /\ query.raised

\* The requests on a field of an object literal, `self.f` inside the field
\* f included, are answered.
C25_ObjectsAnswered ==
    (Recursing /\ Kind(<<1>>) = "FieldAccess") => ~query.raised

\* The VarRefs at or below a node.
VarRefsIn(p) == {r \in NodesOfKind("VarRef") : IsPrefix(p, r)}

\* The specs of the comprehension of the for-spec s that come after s, and
\* what the comprehension produces: the expression of a ListComp, the field
\* of an ObjComp.
LaterSpecs(s) ==
    {t \in Nodes : Up(t) = Up(s) /\ Kind(t) \in {"ForSpec", "IfSpec"}
                   /\ t[Len(t)] > s[Len(s)]}
Produced(s) == Up(s) \o <<1>>

\* The VarRef r, which follows the for-spec s, is under a binding of the
\* name of s that is nearer to it: a later for-spec of the name whose
\* source r is not in, or, for the value of the field of an ObjComp, an
\* object local of the name.
Rebound(r, s) ==
    \/ \E t \in LaterSpecs(s) :
          /\ Kind(t) = "ForSpec"
          /\ Name(t \o <<1>>) = Name(s \o <<1>>)
          /\ ~IsPrefix(t \o <<2>>, r)
          /\ (IsPrefix(Produced(s), r) \/ \E u \in LaterSpecs(t) : IsPrefix(u, r))
    \/ /\ Kind(Up(s)) = "ObjComp"
       /\ IsPrefix(Produced(s) \o <<2>>, r)
       /\ \E b \in Nodes : Up(b) = Up(s) /\ Kind(b) = "Bind"
                            /\ Name(b \o <<1>>) = Name(s \o <<1>>)

ObjLocals(e) == {b \in Nodes : Up(b) = e /\ Kind(b) = "Bind"}
ObjForSpecs(e) == {s \in Nodes : Up(s) = e /\ Kind(s) = "ForSpec"}
OuterVar(n) == IF n = "a" THEN <<1, 1, 1>> ELSE NoNode
ForSpecVar(e, n) ==
    IF \E s \in ObjForSpecs(e) : Name(s \o <<1>>) = n
    THEN (CHOOSE s \in ObjForSpecs(e) : Name(s \o <<1>>) = n) \o <<1>>
    ELSE OuterVar(n)
ObjLocalVar(e, n) ==
    IF \E b \in ObjLocals(e) : Name(b \o <<1>>) = n
    THEN (CHOOSE b \in ObjLocals(e) : Name(b \o <<1>>) = n) \o <<1>>
    ELSE ForSpecVar(e, n)

LocalBinds(e) == {b \in Nodes : Up(b) = e /\ Kind(b) = "Bind"}

\* C28: the binds of `local a = e1, b = e2; body` are recorded one at a
\* time in textual order, each before its own value is visited: a VarRef to
\* a bind's name that is the value of that bind or of a later bind is
\* linked to the Var of the nearest such bind before it, and a VarRef
\* inside the value of a bind is never linked to the Var of a later sibling
\* bind: it is unlinked or linked to an outer binding of the name.
C28_BindsInTextualOrder ==
    phase = "ScopeResolved" =>
        \A e \in NodesOfKind("Local") : \A bi \in LocalBinds(e), bj \in LocalBinds(e) :
            LET i == bi[Len(bi)]
                j == bj[Len(bj)]
            IN  /\ (/\ i <= j
                    /\ Kind(bj \o <<2>>) = "VarRef"
                    /\ Name(bj \o <<2>>) = Name(bi \o <<1>>)
                    /\ ~\E bk \in LocalBinds(e) :
                          /\ bk[Len(bk)] > i /\ bk[Len(bk)] <= j
                          /\ Name(bk \o <<1>>) = Name(bi \o <<1>>))
                   => var[bj \o <<2>>] = bi \o <<1>>
                /\ i > j =>
                      \A r \in VarRefsIn(bj \o <<2>>) :
                          /\ var[r] # bi \o <<1>>
                          /\ (/\ Name(r) = Name(bi \o <<1>>)
                              /\ ~\E bk \in LocalBinds(e) :
                                    /\ bk[Len(bk)] <= j
                                    /\ Name(bk \o <<1>>) = Name(r))
                             => (var[r] = NoNode \/ ~IsPrefix(e, var[r]))

\* C28 witness: `local a = 1; local a = b, b = a; R` is resolved: the b of
\* the first value is unlinked and the a of the second value is linked to
\* the first bind.
C28_Witness ==
    /\ phase = "ScopeResolved"
    /\ \E e \in NodesOfKind("Local") :
          /\ Name(e \o <<1, 1>>) = "a"
          /\ Kind(e \o <<1, 2>>) = "VarRef" /\ Name(e \o <<1, 2>>) = "b"
          /\ var[e \o <<1, 2>>] = NoNode
          /\ e \o <<2>> \in Nodes /\ Kind(e \o <<2>>) = "Bind"
          /\ Name(e \o <<2, 1>>) = "b"
          /\ Kind(e \o <<2, 2>>) = "VarRef" /\ Name(e \o <<2, 2>>) = "a"
          /\ var[e \o <<2, 2>>] = e \o <<1, 1>>

\* A field references query has run.
Searched == query.op = "references"

\* C29 (as claimed): a field references query reads the documents of the
\* workspace through get_or_load: a document that is in the cache of the
\* loader when the query starts is still the same cached document after
\* the query, and is not replaced by a parse of the source on the disk.
C29_Original ==
    Searched =>
        \A u \in DOMAIN query.trees_before : loader.trees[u] = query.trees_before[u]

\* C29 witness: the document of a file was cached from a text that is not
\* the text on the disk; after the query the cache holds another document
\* under that uri, parsed from the text on the disk.
C29_Witness ==
    /\ Searched
    /\ \E u \in DOMAIN query.trees_before :
          /\ heap[query.trees_before[u]].source # file_system[u]
          /\ loader.trees[u] # query.trees_before[u]
          /\ heap[loader.trees[u]].source = file_system[u]

\* The cached document of a file that the query did not load (the name
\* does not occur in it) is the same document after the query.
C29_UnmatchedFilesKept ==
    Searched =>
        \A u \in DOMAIN query.trees_before :
            (\A i \in DOMAIN query.files : query.files[i] # u)
                => loader.trees[u] = query.trees_before[u]

\* prepare has answered with a range and a placeholder.
Prepared == query.op = "prepareRename" /\ query.prepared # {}

\* The edits serve returns at the position prepare was asked about.
ServedEdits(new_name) == rename_serve(query.tree, query.pos, new_name).edits

\* C30 (as claimed): whenever prepare returns a range and a placeholder,
\* serve at the same position returns a non-empty list of edits that
\* contains an edit for exactly the range prepare returned, for every Var
\* and every VarRef, linked or not.
C30_Original ==
    Prepared =>
        \A new_name \in NewNames : \A p \in query.prepared :
            /\ ServedEdits(new_name) # <<>>
            /\ \E i \in DOMAIN ServedEdits(new_name) :
                  ServedEdits(new_name)[i].range = p.range

\* C30 witness: prepare answers at a VarRef that is linked to no Var, and
\* serve at that position returns no edit.
C30_Witness ==
    /\ Prepared
    /\ Kind(query.node) = "VarRef"
    /\ var[query.node] = NoNode
    /\ \A new_name \in NewNames : ServedEdits(new_name) = <<>>

\* At a Var and at a VarRef that is linked, the edits of serve contain the
\* range prepare returned.
C30_LinkedPrepared ==
    (Prepared /\ (Kind(query.node) = "Var" \/ var[query.node] # NoNode)) =>
        \A new_name \in NewNames : \A p \in query.prepared :
            \E i \in DOMAIN ServedEdits(new_name) :
                ServedEdits(new_name)[i].range = p.range

================================================================================
